---- MODULE Spec2Model ----
(***************************************************************************)
(* A model of backend/app/views/functional.py of cdl-platform: the        *)
(* submission lifecycle handlers and the community-core aggregate they     *)
(* maintain, and the search / recommendation flows with result fusion,     *)
(* the optional neural reranker and the session page cache.                *)
(***************************************************************************)
EXTENDS Integers, Sequences, FiniteSets, TLC

\* ------------------------------------------------------------------ bounds
MaxSubs == 2
MaxOps == 3
MaxHits == 2
MaxSearches == 1
MaxRecs == 1
MaxReqs == 2
MaxPage == 1
PageSize == 2

\* ------------------------------------------------------------ the universe
Users == {"u1", "u2"}
Communities == {"c1", "c2"}

\* the reserved web community, the one account that may submit to it, and an
\* ordinary account that is a member of it
WebCommunity == "web"
PrivilegedUser == "admin"
WebUsers == {"u3", PrivilegedUser}

\* current_user.communities of each user
UserCommunities(u) ==
    IF u = "u1" THEN {"c1", "c2"}
    ELSE IF u \in WebUsers THEN {"c1", WebCommunity}
    ELSE {"c1"}

\* raw source URLs; two of them differ only by a trailing slash
Urls == {"http://a", "http://a/", "http://b"}

\* a text is the set of its tokens; tokens that start with '#' are hashtags
HashTokens == {"#core", "#a", "#b"}
HighlightedTexts == {{}, {"#core", "#a"}}
Explanations == {{"#a", "w"}, {"#core", "#b", "w"}}

\* an optional request parameter: {} is None, {v} is the value v
Opt(S) == {{}} \cup {{v} : v \in S}
IsNone(o) == o = {}
Val(o) == CHOOSE v \in o : TRUE

VARIABLES
    logs,       \* Logs collection: sequence of submission records, id = position
    index,      \* submissions search index: ids of the indexed documents
    core,       \* CommunityCores: [community, normalized url] -> entry
    resp,       \* the response of the last handled request
    nops,       \* number of requests handled so far
    creq,       \* submission requests in flight, per worker thread
    serial,     \* the community core had every update call run as a whole
    environ,    \* whether "neural_api" is set in os.environ
    sub_index,  \* the ranked hits the submissions index holds
    web_index,  \* the ranked hits the webpages index holds
    searches,   \* SearchesClicks: the logged searches, id = <<"s", position>>
    nrecs,      \* number of logged recommendation requests, ids <<"r", 1..nrecs>>
    cache,      \* Cache: [user, session id] -> the cached full result list
    sreq,       \* search requests in flight, per worker thread
    sresp,      \* the response each thread returned last
    nreqs,      \* number of search / recommendation requests begun
    sargs,      \* what the request each thread took last asked for
    rerank_failed,  \* whether some rerank call has failed so far
    connections,    \* Connections: sequence of [source_id, target_id]
    vresp,      \* the response of the last submission GET or connection request
    nviews,     \* number of logged submission views, ids <<"v", 1..nviews>>
    calc,       \* a derivation: its arguments and its result
    search_clicks,          \* the logged search clicks: result hashes
    recommendation_clicks,  \* the logged recommendation clicks: result hashes
    redirected  \* the response of the last redirect request

coreVars == <<logs, index, core, resp, nops, creq, serial>>

searchVars == <<environ, sub_index, web_index, searches, nrecs, cache, sreq, sresp, nreqs,
                sargs, rerank_failed>>

clickVars == <<search_clicks, recommendation_clicks, redirected>>

restVars == <<connections, vresp, nviews, calc, clickVars>>

vars == <<coreVars, searchVars, restVars>>

\* ----------------------------------------------------------------- helpers
extract_hashtags(text) == text \cap HashTokens

standardize_url(url) == IF url = "http://a/" THEN "http://a" ELSE url

StdUrls == {standardize_url(u) : u \in Urls}

\* list(set(extract_hashtags(a) + extract_hashtags(b)))
TagsOf(rec) == extract_hashtags(rec.explanation) \cup extract_hashtags(rec.highlighted_text)

Range(seq) == {seq[i] : i \in 1..Len(seq)}

RECURSIVE Concat(_)
Concat(seqs) == IF seqs = <<>> THEN <<>> ELSE Head(seqs) \o Concat(Tail(seqs))

\* the users that are keys of a communities map, in a fixed iteration order
KeyOrder(comms) ==
    (IF "u1" \in DOMAIN comms THEN <<"u1">> ELSE <<>>) \o
    (IF "u2" \in DOMAIN comms THEN <<"u2">> ELSE <<>>) \o
    (IF "u3" \in DOMAIN comms THEN <<"u3">> ELSE <<>>) \o
    (IF PrivilegedUser \in DOMAIN comms THEN <<PrivilegedUser>> ELSE <<>>)

\* [x for user_id in communities for x in communities[user_id]]
AllCommunitiesList(comms) ==
    LET ks == KeyOrder(comms) IN Concat([i \in 1..Len(ks) |-> comms[ks[i]]])

\* ------------------------------------------------- CommunityCores (4.6)
\* An entry maps each hashtag to the submissions that contribute it.
NoEntry == [present |-> FALSE, content |-> <<>>]

InitCore == [k \in (Communities \cup {WebCommunity}) \X StdUrls |-> NoEntry]

\* --- a variant: every hashtag of submission sid is dropped from the entry
RetractHashtags(content, sid) ==
    LET keep == {h \in DOMAIN content : sid \notin content[h]}
    IN  [h \in keep |-> content[h]]

\* the entry without anything attributed to submission sid
Retract(content, sid) ==
    LET keep == {h \in DOMAIN content : content[h] \ {sid} # {}}
    IN  [h \in keep |-> content[h] \ {sid}]

\* update(communityId, normalizedUrl, hashtags, submissionId) on one entry
CoreUpdate(entry, tags, sid) ==
    LET rest == Retract(entry.content, sid)
    IN  IF tags # {}
        THEN [present |-> TRUE,
              content |-> [h \in DOMAIN rest \cup tags |->
                             (IF h \in DOMAIN rest THEN rest[h] ELSE {}) \cup
                             (IF h \in tags THEN {sid} ELSE {})]]
        ELSE [present |-> entry.present, content |-> rest]

\* one update call carried out as a whole
ApplyCall(c, call) ==
    [c EXCEPT ![<<call.c, call.u>>] = CoreUpdate(@, call.tags, call.sid)]

RECURSIVE ApplyCalls(_, _)
ApplyCalls(c, calls) ==
    IF calls = <<>> THEN c ELSE ApplyCalls(ApplyCall(c, Head(calls)), Tail(calls))

\* list(community_core.core_content[url].keys())
EntryHashtags(c, comm, url) == DOMAIN c[<<comm, url>>].content

Call(comm, url, tags, sid) == [c |-> comm, u |-> url, tags |-> tags, sid |-> sid]

\* --------------------------------------------------- submission handlers
\* What a handler does to the Logs collection and the submissions index,
\* the community-core update calls it issues (in order) and its status.
Effect(l, ix, calls, status) == [logs |-> l, index |-> ix, calls |-> calls, status |-> status]

Exists(l, id) == id \in 1..Len(l)

\* create_submission_helper
CreateEffect(l, ix, user, highlighted_text, source_url, explanation, community) ==
    IF community = WebCommunity /\ user # PrivilegedUser THEN Effect(l, ix, <<>>, "FORBIDDEN")
    ELSE IF community = "" THEN Effect(l, ix, <<>>, "BAD_REQUEST")
    ELSE IF community \notin Communities \cup {WebCommunity}
      THEN Effect(l, ix, <<>>, "BAD_REQUEST")
    ELSE IF community \notin UserCommunities(user) THEN Effect(l, ix, <<>>, "FORBIDDEN")
    ELSE IF explanation = {} THEN Effect(l, ix, <<>>, "BAD_REQUEST")
    ELSE
      LET id  == Len(l) + 1
          doc == [user_id |-> user, highlighted_text |-> highlighted_text,
                  explanation |-> explanation, source_url |-> source_url,
                  communities |-> (user :> <<community>>), deleted |-> FALSE]
          hashtags == TagsOf(doc)
      IN  Effect(Append(l, doc), ix \cup {id},
                 IF "#core" \in hashtags
                   THEN <<Call(community, standardize_url(source_url), hashtags \ {"#core"}, id)>>
                   ELSE <<>>,
                 "OK")

\* submission DELETE without community_id: delete the whole submission
DeleteEffect(l, ix, user, id) ==
    LET matched == Exists(l, id) /\ l[id].user_id = user
        l1  == IF matched THEN [l EXCEPT ![id].deleted = TRUE] ELSE l
        ix1 == ix \ {id}
    IN  IF ~Exists(l, id) THEN Effect(l1, ix1, <<>>, "INTERNAL_SERVER_ERROR")
        ELSE LET old_record == l1[id] IN
          IF "#core" \in TagsOf(old_record)
          THEN IF user \notin DOMAIN old_record.communities
               THEN Effect(l1, ix1, <<>>, "INTERNAL_SERVER_ERROR")
               ELSE LET cs == old_record.communities[user] IN
                    Effect(l1, ix1,
                           [i \in 1..Len(cs) |->
                              Call(cs[i], standardize_url(old_record.source_url), {}, id)],
                           "OK")
          ELSE Effect(l1, ix1, <<>>, "OK")

\* submission DELETE with community_id: remove the submission from a community
RemoveEffect(l, ix, user, id, community_id) ==
    IF ~Exists(l, id) THEN Effect(l, ix, <<>>, "INTERNAL_SERVER_ERROR")
    ELSE
      LET current_submission == l[id]
          sc == current_submission.communities
      IN  IF user \notin DOMAIN sc THEN Effect(l, ix, <<>>, "INTERNAL_SERVER_ERROR")
          ELSE
            LET filtered == SelectSeq(sc[user], LAMBDA x : x # community_id)
                sc1 == IF filtered = <<>>
                         THEN [u \in DOMAIN sc \ {user} |-> sc[u]]
                         ELSE [sc EXCEPT ![user] = filtered]
            IN  Effect([l EXCEPT ![id].communities = sc1], (ix \ {id}) \cup {id},
                       IF "#core" \in TagsOf(current_submission)
                         THEN <<Call(community_id, standardize_url(current_submission.source_url), {}, id)>>
                         ELSE <<>>,
                       "OK")

\* Python truthiness of an optional text: None and "" are falsy
Falsy(o) == IsNone(o) \/ Val(o) = {}

\* community_id == "63a4c21aee3be6ac5c533a55" after community_id =
\* ObjectId(community_id): an ObjectId never equals a str
ObjectIdEqualsStr(community_id, str) == FALSE

\* submission PATCH
PatchEffect(l, ix, user, id, community_id, highlighted_text, explanation, source_url) ==
    IF IsNone(community_id) /\ Falsy(highlighted_text) /\ Falsy(explanation)
      THEN Effect(l, ix, <<>>, "BAD_REQUEST")
    ELSE IF ~Exists(l, id) THEN Effect(l, ix, <<>>, "NOT_FOUND")
    ELSE IF l[id].user_id # user THEN Effect(l, ix, <<>>, "FORBIDDEN")
    ELSE IF ~IsNone(community_id) /\ Val(community_id) \notin UserCommunities(user)
      THEN Effect(l, ix, <<>>, "FORBIDDEN")
    ELSE IF /\ ~IsNone(community_id)
            /\ ObjectIdEqualsStr(Val(community_id), WebCommunity)
            /\ user # PrivilegedUser
      THEN Effect(l, ix, <<>>, "FORBIDDEN")
    ELSE
      LET submission == l[id]
          sc == submission.communities
          \* adding to a community
          sc0 == IF user \in DOMAIN sc THEN sc ELSE (user :> <<>>) @@ sc
          submission_communities ==
              IF IsNone(community_id) THEN sc
              ELSE IF Val(community_id) \in Range(sc0[user]) THEN sc0
              ELSE [sc0 EXCEPT ![user] = Append(@, Val(community_id))]
          \* the record after update_one({"$set": insert_obj})
          edited == [submission EXCEPT
                       !.communities = submission_communities,
                       !.highlighted_text = IF IsNone(highlighted_text) THEN @ ELSE Val(highlighted_text),
                       !.explanation = IF IsNone(explanation) THEN @ ELSE Val(explanation),
                       !.source_url = IF IsNone(source_url) THEN @ ELSE Val(source_url)]
          \* a submission is added to a new community: tags of the old text, old url
          old_tags == TagsOf(submission)
          added == IF ~IsNone(community_id) /\ "#core" \in old_tags
                     THEN <<Call(Val(community_id), standardize_url(submission.source_url),
                                 old_tags \ {"#core"}, id)>>
                     ELSE <<>>
          OLD_CORE_FLAG ==
              \/ ~IsNone(highlighted_text) /\ "#core" \in extract_hashtags(submission.highlighted_text)
              \/ ~IsNone(explanation) /\ "#core" \in extract_hashtags(submission.explanation)
          \* the hashtags add_to_index returns for the edited document
          new_tags == TagsOf(edited)
          UPDATE_FLAG == (OLD_CORE_FLAG /\ "#core" \notin new_tags) \/ "#core" \in new_tags
          hashtags == IF "#core" \in new_tags THEN new_tags \ {"#core"} ELSE {}
          all_communities == AllCommunitiesList(submission_communities)
          standardized_new_url == standardize_url(edited.source_url)
          standardized_old_url == standardize_url(submission.source_url)
          PerCommunity(c) ==
              (IF standardized_new_url # standardized_old_url
                 THEN <<Call(c, standardized_old_url, {}, id)>> ELSE <<>>) \o
              <<Call(c, standardized_new_url, hashtags, id)>>
          changed == IF UPDATE_FLAG
                       THEN Concat([i \in 1..Len(all_communities) |-> PerCommunity(all_communities[i])])
                       ELSE <<>>
      IN  Effect([l EXCEPT ![id] = edited], (ix \ {id}) \cup {id}, added \o changed, "OK")

\* worker threads that handle requests concurrently
Threads == {1, 2}

IdleReq == [pc |-> "idle", op |-> "none", status |-> "none", todo |-> <<>>, snap |-> <<>>]

\* ---------------------------------------------------- search: the data
\* a backend hit: document id, source index, url, backend score, and for a
\* submission the community it is in and its hashtags
SubHit(id, owner, url, score, community, tags) ==
    [id |-> id, kind |-> "submission", owner |-> owner, url |-> url, _score |-> score,
     community |-> community, tags |-> tags]

WebHit(id, url, score) ==
    [id |-> id, kind |-> "webpage", owner |-> "", url |-> url, _score |-> score,
     community |-> "", tags |-> {}]

SubPool == {SubHit("s1", "u1", "http://a", 9, "c1", {"#a"}),
            SubHit("s2", "u2", "http://b", 5, "c1", {}),
            SubHit("s3", "u1", "http://a/", 3, "c2", {"#a"})}

WebPool == {WebHit("w1", "http://b", 7),
            WebHit("w2", "http://c", 3)}

\* ranked lists of at most n distinct hits of a pool, best score first
RECURSIVE RankedUpTo(_, _)
RankedUpTo(pool, n) ==
    IF n = 0 THEN {<<>>}
    ELSE LET prev == RankedUpTo(pool, n - 1)
             more == {x \in prev \X pool :
                        /\ x[2] \notin Range(x[1])
                        /\ x[1] = <<>> \/ x[2]._score <= x[1][Len(x[1])]._score}
         IN  prev \cup {Append(x[1], x[2]) : x \in more}

RankedLists(pool) == RankedUpTo(pool, MaxHits)

\* --------------------------------------------- search: helpers (helpers.py)
\* create_page: a backend hit as a result item for display
create_page(hits) ==
    [i \in 1..Len(hits) |->
        [id |-> hits[i].id, kind |-> hits[i].kind, url |-> hits[i].url,
         score |-> hits[i]._score]]

combine_pages(a, b) == a \o b

\* sorted(pages, reverse=True, key=score): stable, best score first
RECURSIVE InsertByScore(_, _)
InsertByScore(sorted, x) ==
    IF sorted = <<>> THEN <<x>>
    ELSE IF Head(sorted).score >= x.score
           THEN <<Head(sorted)>> \o InsertByScore(Tail(sorted), x)
           ELSE <<x>> \o sorted

RECURSIVE SortedByScore(_)
SortedByScore(pages) ==
    IF pages = <<>> THEN <<>>
    ELSE InsertByScore(SortedByScore(SubSeq(pages, 1, Len(pages) - 1)), pages[Len(pages)])

\* deduplicate: of the items with one normalized url keep the best scored
\* (the first of them on a tie), in the order of the input
Survives(pages, i) ==
    \A j \in 1..Len(pages) :
        (j # i /\ standardize_url(pages[j].url) = standardize_url(pages[i].url))
            => (pages[j].score < pages[i].score \/ (pages[j].score = pages[i].score /\ j > i))

RECURSIVE KeepFrom(_, _)
KeepFrom(pages, i) ==
    IF i > Len(pages) THEN <<>>
    ELSE (IF Survives(pages, i) THEN <<pages[i]>> ELSE <<>>) \o KeepFrom(pages, i + 1)

deduplicate(pages) == KeepFrom(pages, 1)

\* hydrate_with_hash_url(results, search_id, page=0): rank and result hash
\* "{rank}_{id}_{session}". The results are taken as the page at index `page`
\* of a listing: the i-th of them gets rank page * page_size + i.
hydrate_with_hash_url(pages, session_id, page) ==
    [i \in 1..Len(pages) |->
        [id |-> pages[i].id, kind |-> pages[i].kind, url |-> pages[i].url,
         score |-> pages[i].score, rank |-> page * PageSize + i - 1,
         result_hash |-> <<page * PageSize + i - 1, pages[i].id, session_id>>]]

\* the page of a full list at a 0-based page index (empty past the end)
PageOf(pages, page_index) ==
    SubSeq(pages, page_index * PageSize + 1,
           IF (page_index + 1) * PageSize < Len(pages)
             THEN (page_index + 1) * PageSize ELSE Len(pages))

\* ------------------------------------------------ search: the gateways
\* elastic_manager.search(query, communities): the hits of the submissions
\* index in the given communities, in rank order
SubmissionsSearch(communities) ==
    SelectSeq(sub_index, LAMBDA h : h.community \in communities)

\* the query for core content: the hits in one community that carry one of
\* the hashtags
CoreSearch(hashtags, community) ==
    SelectSeq(sub_index, LAMBDA h : h.community = community /\ h.tags \cap hashtags # {})

\* --- a variant of the boost: applied twice
BoostTwice(hits) == [i \in 1..Len(hits) |-> [hits[i] EXCEPT !._score = @ + 200]]

\* hit["_score"] += 100
Boost(hits) == [i \in 1..Len(hits) |-> [hits[i] EXCEPT !._score = @ + 100]]

\* elastic_manager.get_submissions(user_id): the user's own submissions
OwnSubmissions(user) == SelectSeq(sub_index, LAMBDA h : h.owner = user)

\* elastic_manager.get_community(community)
CommunityHits(community) == SelectSeq(sub_index, LAMBDA h : h.community = community)

\* the communities of a user in a fixed order, as list(communities.keys())
CommunityOrder(set) ==
    (IF "c1" \in set THEN <<"c1">> ELSE <<>>) \o (IF "c2" \in set THEN <<"c2">> ELSE <<>>)

\* ---------------------------------------------------- search: the cache
SessionIds == {<<"s", i>> : i \in 1..MaxSearches} \cup {<<"r", i>> : i \in 1..MaxRecs}

\* by and via record who cached the list and on which path
NoCache == [present |-> FALSE, pages |-> <<>>, total |-> 0, by |-> "", via |-> ""]

\* the key a list is cached under
CacheKey(user_id, session_id) == <<user_id, session_id>>

\* Cache.insert(user_id, session_id, pages, index)
CacheInsert(c, user_id, session_id, pages, via) ==
    [c EXCEPT ![CacheKey(user_id, session_id)] =
        [present |-> TRUE, pages |-> pages, total |-> Len(pages), by |-> user_id,
         via |-> via]]

\* Cache.search(user_id, session_id, index) -> (number_of_hits, page)
CacheSearch(c, user_id, session_id, page_index) ==
    LET e == c[CacheKey(user_id, session_id)]
    IN  IF e.present
          THEN [total |-> e.total, page |-> PageOf(e.pages, page_index), by |-> e.by]
          ELSE [total |-> 0, page |-> <<>>, by |-> ""]

\* ------------------------------------------------- search: the pipeline
Queries == {"", "q", "#t"}

\* "#" in query
HasHash(query) == query = "#t"

\* --- variants of the core boost
\* the core query made whether or not the request asks for core retrieval
CoreHitsAlways(url_core_retrieve, communities) ==
    LET url == "http://a"
        cs  == CommunityOrder(communities)
        PerCommunity(community_id) ==
            IF core[<<community_id, url>>].present
              THEN Boost(CoreSearch(EntryHashtags(core, community_id, url), community_id))
              ELSE <<>>
    IN  Concat([i \in 1..Len(cs) |-> PerCommunity(cs[i])])

\* the candidates of a fused search: submissions, boosted core hits of every
\* scoped community that has a core entry for the url, webpages
CoreHitsFor(url_core_retrieve, communities) ==
    IF url_core_retrieve = <<>> THEN <<>>
    ELSE LET url == standardize_url(url_core_retrieve[1])
             cs  == CommunityOrder(communities)
             PerCommunity(community_id) ==
                 IF url \in StdUrls /\ core[<<community_id, url>>].present
                   THEN Boost(CoreSearch(EntryHashtags(core, community_id, url), community_id))
                   ELSE <<>>
         IN  Concat([i \in 1..Len(cs) |-> PerCommunity(cs[i])])

Candidates(communities, toggle_webpage_results, url_core_retrieve) ==
    LET submissions_hits == SubmissionsSearch(communities)
                              \o CoreHitsFor(url_core_retrieve, communities)
        submissions_pages == create_page(submissions_hits)
    IN  IF toggle_webpage_results
          THEN combine_pages(submissions_pages, create_page(web_index))
          ELSE submissions_pages

\* --- variants of the pipeline with one step changed
\* deduplication of each page on its own
DedupPerPage(pages) ==
    Concat([p \in 1..((Len(pages) + PageSize - 1) \div PageSize) |->
               deduplicate(PageOf(pages, p - 1))])

FusedListDedupPerPage(submissions_pages, search_id, page_index) ==
    hydrate_with_hash_url(DedupPerPage(SortedByScore(submissions_pages)), search_id, page_index)

\* no deduplication
FusedListNoDedup(submissions_pages, search_id, page_index) ==
    hydrate_with_hash_url(SortedByScore(submissions_pages), search_id, page_index)

\* no sort
FusedListUnsorted(submissions_pages, search_id, page_index) ==
    hydrate_with_hash_url(deduplicate(submissions_pages), search_id, page_index)

\* the list cache_search caches: sorted, deduplicated, hydrated
FusedList(submissions_pages, search_id, page_index) ==
    hydrate_with_hash_url(deduplicate(SortedByScore(submissions_pages)), search_id, page_index)

\* the list explore_similar caches
RecommendedList(submissions_pages, recommendation_id) ==
    hydrate_with_hash_url(deduplicate(SortedByScore(submissions_pages)), recommendation_id, 0)

\* ---------------------------------------------- search: requests, responses
\* a request: its kind (a new search or recommendation, or a page of one) and
\* its query and source arguments
Args(kind, q, source) == [kind |-> kind, q |-> q, source |-> source]

NoArgs == Args("none", "", "")

\* which gateway's search raises while a request runs
GatewayFailures == {"none", "submissions", "webpages"}

\* what an error response records when a gateway's search raised
GatewayError(gateway_down) ==
    IF gateway_down = "submissions" THEN "submissions_down" ELSE "webpages_down"

IdleSearch ==
    [pc |-> "idle", user |-> "", search_id |-> <<>>, index |-> 0, query |-> "",
     submissions_pages |-> <<>>, cache_up |-> TRUE, pages |-> <<>>, rerank |-> "none"]

\* a response: status, the page and total count returned, and for the record
\* which request it answers, by which path (via), the merged candidates and
\* the list the request cached (if it cached one), what its rerank call did
\* and returned, and who had cached the list the page was cut from
Response(status, via, user, session_id, page_index, total, results, merged, cached, rerank, reranked, by) ==
    [status |-> status, via |-> via, user |-> user, session_id |-> session_id,
     index |-> page_index, total |-> total, results |-> results, merged |-> merged,
     cached |-> cached, rerank |-> rerank, reranked |-> reranked, by |-> by]

NoResponse == Response("none", "none", "", <<>>, 0, 0, <<>>, <<>>, <<>>, "none", <<>>, "")

\* an error response; via names what raised it
ErrorResponse(status, via, user, session_id, page_index, rerank, reranked) ==
    Response(status, via, user, session_id, page_index, 0, <<>>, <<>>, <<>>, rerank,
             reranked, "")

\* the orders a reranker may return the submitted pages in
Reverse(seq) == [i \in 1..Len(seq) |-> seq[Len(seq) + 1 - i]]
RerankOrders(pages) == {pages, Reverse(pages)}

\* --------------------------------------------- the handlers, one at a time
\* no search or recommendation request has been made
\* no connection made, no submission viewed, nothing derived
NoView == [status |-> "none", session_id |-> <<>>, items |-> <<>>]

NoCalc == [op |-> "none"]

NoRedirect == [at |-> 0, status |-> "none", hash |-> "", method |-> ""]

ClickIdle ==
    /\ search_clicks = <<>>
    /\ recommendation_clicks = <<>>
    /\ redirected = NoRedirect

RestIdle ==
    /\ connections = <<>>
    /\ vresp = NoView
    /\ nviews = 0
    /\ ClickIdle
    /\ calc = NoCalc

SearchIdle ==
    /\ environ = TRUE
    /\ sub_index = <<>>
    /\ web_index = <<>>
    /\ searches = <<>>
    /\ nrecs = 0
    /\ cache = [k \in Users \X SessionIds |-> NoCache]
    /\ sreq = [t \in Threads |-> IdleSearch]
    /\ sresp = [t \in Threads |-> NoResponse]
    /\ nreqs = 0
    /\ sargs = [t \in Threads |-> NoArgs]
    /\ rerank_failed = FALSE

Init ==
    /\ logs = <<>>
    /\ index = {}
    /\ core = InitCore
    /\ resp = [op |-> "none", status |-> "none"]
    /\ nops = 0
    /\ creq = [r \in Threads |-> IdleReq]
    /\ serial = InitCore
    /\ SearchIdle
    /\ RestIdle

Handle(op, e) ==
    /\ logs' = e.logs
    /\ index' = e.index
    /\ core' = ApplyCalls(core, e.calls)
    /\ resp' = [op |-> op, status |-> e.status]
    /\ nops' = nops + 1
    /\ UNCHANGED <<creq, serial, searchVars, restVars>>

Create ==
    /\ nops < MaxOps
    /\ Len(logs) < MaxSubs
    /\ \E user \in Users, ht \in HighlightedTexts, url \in Urls, ex \in Explanations,
       community \in Communities :
        Handle("create", CreateEffect(logs, index, user, ht, url, ex, community))

Delete ==
    /\ nops < MaxOps
    /\ \E user \in Users, id \in 1..MaxSubs :
        Handle("delete", DeleteEffect(logs, index, user, id))

Remove ==
    /\ nops < MaxOps
    /\ \E user \in Users, id \in 1..MaxSubs, community_id \in Communities :
        Handle("remove", RemoveEffect(logs, index, user, id, community_id))

Patch ==
    /\ nops < MaxOps
    /\ \E user \in Users, id \in 1..MaxSubs, community_id \in Opt(Communities),
       ht \in Opt(HighlightedTexts), ex \in Opt(Explanations), url \in Opt(Urls) :
        Handle("patch", PatchEffect(logs, index, user, id, community_id, ht, ex, url))

Next == Create \/ Delete \/ Remove \/ Patch

Spec == Init /\ [][Next]_vars

\* ------------------------------------- connections and the submission view
\* an id that is not a well-formed ObjectId, and the id of a scraped webpage
BadId == 0
WebpageId == MaxSubs + 1

IdArgs == 0..(MaxSubs + 1)

ViewResponse(status, session_id, items) ==
    [status |-> status, session_id |-> session_id, items |-> items]

\* build_result_hash(-1, id, search_id): "{rank}_{id}_{session}" with rank -1
ViewItem(id, search_id) == [id |-> id, result_hash |-> <<-1, id, search_id>>]

\* create_connection
Connect ==
    /\ nops < MaxOps
    /\ \E connection_source \in IdArgs, connection_target \in IdArgs :
        /\ nops' = nops + 1
        /\ IF connection_source = BadId \/ connection_target = BadId
             THEN /\ vresp' = ViewResponse("BAD_REQUEST", <<>>, <<>>)
                  /\ UNCHANGED connections
             ELSE /\ connections' = Append(connections,
                          [source_id |-> connection_source, target_id |-> connection_target])
                  /\ vresp' = ViewResponse("OK", <<>>, <<>>)
    /\ UNCHANGED <<logs, index, core, resp, creq, serial, nviews, calc, searchVars, clickVars>>

\* the communities a submission is part of, over all users
SubmissionCommunities(rec) == UNION {Range(rec.communities[u]) : u \in DOMAIN rec.communities}

\* --- a variant of find_connections: deleted targets are listed too
find_connections_with_deleted(submission_id, user, search_id) ==
    LET kept == SelectSeq(connections, LAMBDA c :
                    /\ c.source_id = submission_id
                    /\ Exists(logs, c.target_id)
                    /\ SubmissionCommunities(logs[c.target_id]) \cap UserCommunities(user) # {})
    IN  [i \in 1..Len(kept) |-> ViewItem(kept[i].target_id, search_id)]

\* find_connections: the targets of the submission's connections that exist,
\* are not deleted and are in a community of the user, each formatted by
\* format_submission_for_display
find_connections(submission_id, user, search_id) ==
    LET kept == SelectSeq(connections, LAMBDA c :
                    /\ c.source_id = submission_id
                    /\ Exists(logs, c.target_id)
                    /\ ~logs[c.target_id].deleted
                    /\ SubmissionCommunities(logs[c.target_id]) \cap UserCommunities(user) # {})
    IN  [i \in 1..Len(kept) |-> ViewItem(kept[i].target_id, search_id)]

\* submission GET by user for id: the response and the view it logs
ViewRequest(user, id) ==
    LET search_id == <<"v", nviews + 1>>
        found == Exists(logs, id)
        shown == ViewResponse("OK", search_id,
                              <<ViewItem(id, search_id)>> \o find_connections(id, user, search_id))
    IN  /\ nops' = nops + 1
        /\ IF id = BadId
             THEN /\ vresp' = ViewResponse("NOT_FOUND", <<>>, <<>>)
                  /\ UNCHANGED nviews
           ELSE IF found /\ ~logs[id].deleted
             THEN IF \/ SubmissionCommunities(logs[id]) \cap UserCommunities(user) # {}
                     \/ logs[id].user_id = user
                    THEN /\ vresp' = shown
                         /\ nviews' = nviews + 1
                    ELSE /\ vresp' = ViewResponse("FORBIDDEN", <<>>, <<>>)
                         /\ UNCHANGED nviews
           ELSE IF ~found /\ id = WebpageId
             THEN /\ vresp' = ViewResponse("OK", search_id, <<ViewItem(id, search_id)>>)
                  /\ nviews' = nviews + 1
             ELSE /\ vresp' = ViewResponse("NOT_FOUND", <<>>, <<>>)
                  /\ UNCHANGED nviews

\* submission GET: the submission (or webpage) with its connections
View ==
    /\ nops < MaxOps
    /\ \E user \in Users, id \in IdArgs : ViewRequest(user, id)
    /\ UNCHANGED <<logs, index, core, resp, creq, serial, connections, calc, searchVars,
                   clickVars>>

ViewNext == Create \/ Delete \/ Connect \/ View

ViewSpec == Init /\ [][ViewNext]_vars

\* a store of two submissions: the first by u1, in c1, in c2 or removed from
\* every community, the second by u2, in c1 or removed from it; each may have
\* been deleted by its owner
StoredSubmission(user, communities, deleted) ==
    [user_id |-> user, highlighted_text |-> {}, explanation |-> {"w"},
     source_url |-> "http://a", communities |-> communities, deleted |-> deleted]

Stores ==
    {<<StoredSubmission("u1", m1, d1), StoredSubmission("u2", m2, d2)>> :
        m1 \in {"u1" :> <<"c1">>, "u1" :> <<"c2">>, <<>>},
        m2 \in {"u2" :> <<"c1">>, <<>>},
        d1 \in BOOLEAN, d2 \in BOOLEAN}

GetInit ==
    /\ logs \in Stores
    /\ index = {id \in 1..Len(logs) : ~logs[id].deleted}
    /\ core = InitCore
    /\ resp = [op |-> "none", status |-> "none"]
    /\ nops = 0
    /\ creq = [r \in Threads |-> IdleReq]
    /\ serial = InitCore
    /\ SearchIdle
    /\ RestIdle

GetNext == Connect \/ View \/ Delete \/ Remove

GetSpec == GetInit /\ [][GetNext]_vars

\* ------------------------------------------- search: the derived query
\* a text is a sequence of characters; the limit of 1000 characters and the
\* threshold of 10 words are scaled down
Chars == {"a", "#", " "}
MaxText == 4
CharLimit == 3
WordLimit == 2

Texts == UNION {[1..n -> Chars] : n \in 0..MaxText}

DeriveSources == {"webpage_search", "extension_open", "note_automatic"}
DeriveUrls == {<<>>, <<"u">>}

\* text[:1000]
Truncate(text) == SubSeq(text, 1, IF Len(text) < CharLimit THEN Len(text) ELSE CharLimit)

\* --- a variant: the hash characters are kept
KeepHash(text) == text

\* re.sub("#", " ", text)
StripHash(text) == [i \in 1..Len(text) |-> IF text[i] = "#" THEN " " ELSE text[i]]

\* text.split(): the maximal runs of non-blank characters
RECURSIVE Split(_, _)
Split(text, word) ==
    IF text = <<>> THEN (IF word = <<>> THEN <<>> ELSE <<word>>)
    ELSE IF Head(text) = " "
           THEN (IF word = <<>> THEN <<>> ELSE <<word>>) \o Split(Tail(text), <<>>)
           ELSE Split(Tail(text), Append(word, Head(text)))

Words(text) == Split(text, <<>>)

\* set(blob.noun_phrases): the key phrases of a text, taken to be its words
KeyPhrases(text) == Range(Words(text))

\* " ".join(list(set)): the phrases joined by blanks, in any order
RECURSIVE Joins(_)
Joins(phrases) ==
    IF phrases = {} THEN {<<>>}
    ELSE UNION {{w \o (IF rest = <<>> THEN <<>> ELSE <<" ">> \o rest) :
                    rest \in Joins(phrases \ {w})} : w \in phrases}

\* search, lines 614-650: the queries the request's arguments may derive
DerivedQueries(query_arg, source, url, highlighted_arg) ==
    LET highlighted_text == Truncate(highlighted_arg)
        query == Truncate(query_arg)
        highlighted_text_nohash == StripHash(highlighted_text)
    IN  IF (query = <<>> /\ source = "extension_open") \/ source = "note_automatic"
          THEN IF highlighted_text = <<>> THEN {url}
               ELSE IF Len(Words(highlighted_text)) < WordLimit THEN {highlighted_text_nohash}
               ELSE Joins(KeyPhrases(highlighted_text_nohash))
          ELSE {query}

DeriveArgs(query, source, url, highlighted_text) ==
    [op |-> "args", query |-> query, source |-> source, url |-> url,
     highlighted_text |-> highlighted_text]

DeriveQuery ==
    /\ calc.op = "args"
    /\ \E q \in DerivedQueries(calc.query, calc.source, calc.url, calc.highlighted_text) :
          calc' = [calc EXCEPT !.op = "derived"] @@ [result |-> q]
    /\ UNCHANGED <<coreVars, searchVars, connections, vresp, nviews, clickVars>>

DeriveInit ==
    /\ logs = <<>>
    /\ index = {}
    /\ core = InitCore
    /\ resp = [op |-> "none", status |-> "none"]
    /\ nops = 0
    /\ creq = [r \in Threads |-> IdleReq]
    /\ serial = InitCore
    /\ SearchIdle
    /\ connections = <<>>
    /\ vresp = NoView
    /\ nviews = 0
    /\ ClickIdle
    /\ \E query \in Texts, source \in DeriveSources, url \in DeriveUrls,
          highlighted_text \in Texts :
          calc = DeriveArgs(query, source, url, highlighted_text)

DeriveSpec == DeriveInit /\ [][DeriveQuery]_vars

\* ------------------------------- explore_similar: the terms of the query
\* a term is one symbol, a phrase a text of terms and blanks; the limit of 10
\* terms and the default text of 25 terms are scaled down
TermLimit == 3

DefaultText == <<"d1", " ", "d2", " ", "d3", " ", "d4">>

\* the noun phrases (longer than 3 characters) the user's recent texts may give
PhrasePool == {<<"x">>, <<"y">>, <<"z", " ", "w">>, <<"x", " ", "v">>}

\* random.shuffle(split_text); split_text[:10]: the first terms of any order
Samples(split_text, n) ==
    {[i \in 1..n |-> split_text[f[i]]] :
        f \in {g \in [1..n -> 1..Len(split_text)] : \A i, j \in 1..n : i # j => g[i] # g[j]}}

\* get_recommendations, lines 896-910: the terms of the queries that the
\* user's recent text (longer than 3 characters or not) and its phrases may give
ExploreTerms(has_text, phrases) ==
    LET texts == IF has_text THEN {<<" ">> \o new_terms : new_terms \in Joins(phrases)}
                 ELSE {<<>>}
        TermsOf(search_text) ==
            LET split_text == Words(IF search_text = <<>> THEN DefaultText ELSE search_text)
            IN  IF Len(split_text) > TermLimit THEN Samples(split_text, TermLimit)
                ELSE {split_text}
    IN  UNION {TermsOf(search_text) : search_text \in texts}

ExploreQuery ==
    /\ calc.op = "explore_args"
    /\ \E terms \in ExploreTerms(calc.has_text, calc.phrases) :
          calc' = [calc EXCEPT !.op = "explored"] @@ [result |-> terms]
    /\ UNCHANGED <<coreVars, searchVars, connections, vresp, nviews, clickVars>>

ExploreInit ==
    /\ logs = <<>>
    /\ index = {}
    /\ core = InitCore
    /\ resp = [op |-> "none", status |-> "none"]
    /\ nops = 0
    /\ creq = [r \in Threads |-> IdleReq]
    /\ serial = InitCore
    /\ SearchIdle
    /\ connections = <<>>
    /\ vresp = NoView
    /\ nviews = 0
    /\ ClickIdle
    /\ \E has_text \in BOOLEAN, phrases \in SUBSET PhrasePool :
          /\ ~has_text => phrases = {}
          /\ calc = [op |-> "explore_args", has_text |-> has_text, phrases |-> phrases]

ExploreSpec == ExploreInit /\ [][ExploreQuery]_vars

\* ------------------------------------ requests of the web community's members
\* create_submission by a member of the web community
WebCreate ==
    /\ nops < MaxOps
    /\ Len(logs) < MaxSubs
    /\ \E user \in WebUsers, ht \in HighlightedTexts, url \in Urls, ex \in Explanations,
       community \in {"c1", WebCommunity} :
        Handle("create", CreateEffect(logs, index, user, ht, url, ex, community))

\* submission PATCH by a member of the web community
WebPatch ==
    /\ nops < MaxOps
    /\ \E user \in WebUsers, id \in 1..MaxSubs, community_id \in Opt({"c1", WebCommunity}),
       ht \in Opt(HighlightedTexts), ex \in Opt(Explanations), url \in Opt(Urls) :
        Handle("patch", PatchEffect(logs, index, user, id, community_id, ht, ex, url))

WebNext == WebCreate \/ WebPatch

WebSpec == Init /\ [][WebNext]_vars

\* ------------------------------------------------------------- redirect
MaxClicks == 3

\* the result hashes and the method values a redirect request may carry
ClickHashes == {"0_s1_q1", "1_w1_r1"}
ClickMethods == {"search", "recommendation", ""}

\* --- a variant: only the method "recommendation" is a recommendation click
ClickStoreByName(method) == IF method = "recommendation" THEN "recommendation" ELSE "search"

\* if (method != "search"): log_recommendation_click(...) else: log_click(...)
ClickStore(method) == IF method # "search" THEN "recommendation" ELSE "search"

\* click: the redirect of a clicked result; the logging call logs or raises
Click ==
    /\ redirected.at < MaxClicks
    /\ \E result_hash \in ClickHashes, method \in ClickMethods, logging \in {"logs", "raises"} :
        IF logging = "raises"
          THEN /\ redirected' = [at |-> redirected.at + 1, status |-> "INTERNAL_SERVER_ERROR",
                                  hash |-> result_hash, method |-> method]
               /\ UNCHANGED <<search_clicks, recommendation_clicks>>
          ELSE /\ IF ClickStore(method) = "recommendation"
                    THEN /\ recommendation_clicks' = Append(recommendation_clicks, result_hash)
                         /\ UNCHANGED search_clicks
                    ELSE /\ search_clicks' = Append(search_clicks, result_hash)
                         /\ UNCHANGED recommendation_clicks
               /\ redirected' = [at |-> redirected.at + 1, status |-> "REDIRECT",
                                  hash |-> result_hash, method |-> method]
    /\ UNCHANGED <<coreVars, searchVars, connections, vresp, nviews, calc>>

ClickSpec == Init /\ [][Click]_vars

\* --------------------------------- update calls on one community-core entry
MaxCalls == 3

\* the hashtags a submission may carry besides the marker tag
CoreTags == HashTokens \ {"#core"}

\* the submissions that call update
Callers == 1..3

\* community_core.update(community, standardized_url, hashtags, ObjectId(id)):
\* the calls the handlers make, one after the other, on the entry of one key
UpdateCall ==
    /\ calc.op = "updates"
    /\ Len(calc.calls) < MaxCalls
    /\ \E hashtags \in SUBSET CoreTags, id \in Callers :
        LET call == Call("c1", standardize_url("http://a/"), hashtags, id)
        IN  /\ core' = ApplyCall(core, call)
            /\ calc' = [calc EXCEPT !.calls = Append(@, call)]
    /\ UNCHANGED <<logs, index, resp, nops, creq, serial, searchVars, connections, vresp,
                   nviews, clickVars>>

UpdatesInit ==
    /\ logs = <<>>
    /\ index = {}
    /\ core = InitCore
    /\ resp = [op |-> "none", status |-> "none"]
    /\ nops = 0
    /\ creq = [r \in Threads |-> IdleReq]
    /\ serial = InitCore
    /\ SearchIdle
    /\ connections = <<>>
    /\ vresp = NoView
    /\ nviews = 0
    /\ ClickIdle
    /\ calc = [op |-> "updates", calls |-> <<>>]

UpdatesSpec == UpdatesInit /\ [][UpdateCall]_vars

\* ------------------------- the handlers when community_core.update raises
\* The update call number k of the handler raises (k = 0: none does) and
\* leaves its entry as it was. The handler has written Logs and the index and
\* carried out the calls before it. create_submission_helper catches the
\* exception and goes on; in submission() it reaches the outer except.
HandleRaising(op, e, k) ==
    /\ logs' = e.logs
    /\ index' = e.index
    /\ core' = ApplyCalls(core, IF k = 0 THEN e.calls ELSE SubSeq(e.calls, 1, k - 1))
    /\ resp' = [op |-> op,
                status |-> IF k = 0 \/ op = "create" THEN e.status
                           ELSE "INTERNAL_SERVER_ERROR",
                expected |-> e.status, raised |-> k]
    /\ nops' = nops + 1
    /\ UNCHANGED <<creq, serial, searchVars, restVars>>

RaisingCreate ==
    /\ nops < MaxOps
    /\ Len(logs) < MaxSubs
    /\ \E user \in Users, ht \in HighlightedTexts, url \in Urls, ex \in Explanations,
          community \in Communities :
        LET e == CreateEffect(logs, index, user, ht, url, ex, community)
        IN  \E k \in 0..Len(e.calls) : HandleRaising("create", e, k)

RaisingDelete ==
    /\ nops < MaxOps
    /\ \E user \in Users, id \in 1..MaxSubs :
        LET e == DeleteEffect(logs, index, user, id)
        IN  \E k \in 0..Len(e.calls) : HandleRaising("delete", e, k)

RaisingRemove ==
    /\ nops < MaxOps
    /\ \E user \in Users, id \in 1..MaxSubs, community_id \in Communities :
        LET e == RemoveEffect(logs, index, user, id, community_id)
        IN  \E k \in 0..Len(e.calls) : HandleRaising("remove", e, k)

RaisingPatch ==
    /\ nops < MaxOps
    /\ \E user \in Users, id \in 1..MaxSubs, community_id \in Opt(Communities),
          ht \in Opt(HighlightedTexts), ex \in Opt(Explanations), url \in Opt(Urls) :
        LET e == PatchEffect(logs, index, user, id, community_id, ht, ex, url)
        IN  \E k \in 0..Len(e.calls) : HandleRaising("patch", e, k)

CoreFailInit ==
    /\ logs = <<>>
    /\ index = {}
    /\ core = InitCore
    /\ resp = [op |-> "none", status |-> "none", expected |-> "none", raised |-> 0]
    /\ nops = 0
    /\ creq = [r \in Threads |-> IdleReq]
    /\ serial = InitCore
    /\ SearchIdle
    /\ RestIdle

CoreFailNext == RaisingCreate \/ RaisingDelete \/ RaisingRemove \/ RaisingPatch

CoreFailSpec == CoreFailInit /\ [][CoreFailNext]_vars

\* --------------------------------- the handlers on concurrent threads
\* A handler's writes to Logs and to the index are taken as one step; each
\* community_core.update call it then issues reads the entry and writes it
\* back in two steps, with no lock held in between.
Begin(r, op, e) ==
    /\ creq[r].pc = "idle"
    /\ logs' = e.logs
    /\ index' = e.index
    /\ nops' = nops + 1
    /\ IF e.calls = <<>>
         THEN /\ resp' = [op |-> op, status |-> e.status]
              /\ UNCHANGED creq
         ELSE /\ creq' = [creq EXCEPT ![r] = [pc |-> "update", op |-> op, status |-> e.status,
                                              todo |-> e.calls, snap |-> <<>>]]
              /\ UNCHANGED resp
    /\ UNCHANGED <<core, serial, searchVars, restVars>>

ConcCreate(r) ==
    /\ nops < MaxOps
    /\ Len(logs) < MaxSubs
    /\ \E user \in Users, ht \in HighlightedTexts, url \in Urls, ex \in Explanations,
          community \in Communities :
        Begin(r, "create", CreateEffect(logs, index, user, ht, url, ex, community))

ConcDelete(r) ==
    /\ nops < MaxOps
    /\ \E user \in Users, id \in 1..MaxSubs :
        Begin(r, "delete", DeleteEffect(logs, index, user, id))

ConcRemove(r) ==
    /\ nops < MaxOps
    /\ \E user \in Users, id \in 1..MaxSubs, community_id \in Communities :
        Begin(r, "remove", RemoveEffect(logs, index, user, id, community_id))

ConcPatch(r) ==
    /\ nops < MaxOps
    /\ \E user \in Users, id \in 1..MaxSubs, community_id \in Opt(Communities),
          ht \in Opt(HighlightedTexts), ex \in Opt(Explanations), url \in Opt(Urls) :
        Begin(r, "patch", PatchEffect(logs, index, user, id, community_id, ht, ex, url))

\* update: read the entry of (community, url)
UpdateRead(r) ==
    /\ creq[r].pc = "update"
    /\ creq[r].snap = <<>>
    /\ LET call == Head(creq[r].todo)
       IN  creq' = [creq EXCEPT ![r].snap = <<core[<<call.c, call.u>>]>>]
    /\ UNCHANGED <<logs, index, core, resp, nops, serial, searchVars, restVars>>

\* update: write back the entry computed from what was read; after the last
\* call the handler responds
UpdateWrite(r) ==
    /\ creq[r].pc = "update"
    /\ creq[r].snap # <<>>
    /\ LET call == Head(creq[r].todo)
           rest == Tail(creq[r].todo)
       IN  /\ core' = [core EXCEPT ![<<call.c, call.u>>] =
                          CoreUpdate(creq[r].snap[1], call.tags, call.sid)]
           /\ serial' = ApplyCall(serial, call)
           /\ IF rest = <<>>
                THEN /\ resp' = [op |-> creq[r].op, status |-> creq[r].status]
                     /\ creq' = [creq EXCEPT ![r] = IdleReq]
                ELSE /\ creq' = [creq EXCEPT ![r].snap = <<>>, ![r].todo = rest]
                     /\ UNCHANGED resp
    /\ UNCHANGED <<logs, index, nops, searchVars, restVars>>

ConcNext ==
    \E r \in Threads :
        \/ ConcCreate(r) \/ ConcDelete(r) \/ ConcRemove(r) \/ ConcPatch(r)
        \/ UpdateRead(r) \/ UpdateWrite(r)

\* the concurrent requests start from a store that holds one submission
ConcInit ==
    \E user \in Users, ht \in HighlightedTexts, url \in Urls, ex \in Explanations,
       community \in Communities :
        LET e == CreateEffect(<<>>, {}, user, ht, url, ex, community) IN
        /\ e.status = "OK"
        /\ logs = e.logs
        /\ index = e.index
        /\ core = ApplyCalls(InitCore, e.calls)
        /\ serial = ApplyCalls(InitCore, e.calls)
        /\ resp = [op |-> "create", status |-> "OK"]
        /\ nops = 1
        /\ creq = [r \in Threads |-> IdleReq]
        /\ SearchIdle
        /\ RestIdle
    /\ RestIdle

ConcSpec == ConcInit /\ [][ConcNext]_vars

\* ------------------- the communities map of a submission, read and written
\* Adding to a community (PATCH with a community_id only) and removing from
\* a community (DELETE with a community_id) load the record with find_one,
\* change the communities map they loaded and store it with update_one
\* ("$set": communities); nothing is held between the two calls.
MembershipRequest(op, user, id, community_id) ==
    [op |-> op, user |-> user, id |-> id, community_id |-> community_id]

\* what the handler of request q does when it works on the Logs collection l
MembershipEffect(l, ix, q) ==
    IF q.op = "patch"
      THEN PatchEffect(l, ix, q.user, q.id, {q.community_id}, {}, {}, {})
      ELSE RemoveEffect(l, ix, q.user, q.id, q.community_id)

\* find_one: the handler now holds its own copy of the record
MembershipRead(r) ==
    /\ nops < MaxOps
    /\ creq[r].pc = "idle"
    /\ \E op \in {"patch", "remove"}, user \in Users, id \in 1..Len(logs),
          community_id \in Communities :
        LET q == MembershipRequest(op, user, id, community_id) IN
        /\ creq' = [creq EXCEPT ![r] = [pc |-> "write", op |-> op, status |-> "none",
                                        todo |-> <<q>>, snap |-> <<logs[id]>>]]
        /\ calc' = IF calc = NoCalc
                     THEN [op |-> "membership", start |-> logs, reqs |-> <<q>>]
                     ELSE [calc EXCEPT !.reqs = Append(@, q)]
    /\ nops' = nops + 1
    /\ UNCHANGED <<logs, index, core, resp, serial, searchVars, connections, vresp, nviews,
                   clickVars>>

\* update_one with the map computed from the copy, the index and core calls
\* that follow it, and the response
MembershipWrite(r) ==
    /\ creq[r].pc = "write"
    /\ LET q == creq[r].todo[1]
           e == MembershipEffect([logs EXCEPT ![q.id] = creq[r].snap[1]], index, q)
       IN  /\ logs' = IF e.status = "OK"
                        THEN [logs EXCEPT ![q.id].communities = e.logs[q.id].communities]
                        ELSE logs
           /\ index' = e.index
           /\ core' = ApplyCalls(core, e.calls)
           /\ serial' = ApplyCalls(serial, e.calls)
           /\ resp' = [op |-> q.op, status |-> e.status]
    /\ creq' = [creq EXCEPT ![r] = IdleReq]
    /\ UNCHANGED <<nops, searchVars, restVars>>

MembershipNext == \E r \in Threads : MembershipRead(r) \/ MembershipWrite(r)

MembershipSpec == ConcInit /\ [][MembershipNext]_vars

\* cache_search from line 1142 on: sort, deduplicate, hydrate, cache, return
Finish(t, r) ==
    LET pages == FusedList(r.submissions_pages, r.search_id, r.index)
        number_of_hits == Len(pages)
    IN  IF ~r.cache_up
          THEN /\ sresp' = [sresp EXCEPT ![t] =
                     ErrorResponse("INTERNAL_SERVER_ERROR", "cache_error", r.user, r.search_id,
                                   r.index, r.rerank, r.pages)]
               /\ UNCHANGED cache
          ELSE /\ cache' = CacheInsert(cache, r.user, r.search_id, pages, "fused")
               /\ sresp' = [sresp EXCEPT ![t] =
                     Response("OK", "fused", r.user, r.search_id, r.index, number_of_hits,
                              PageOf(pages, r.index), r.submissions_pages, pages,
                              r.rerank, r.pages, r.user)]

\* --- a variant of the lookup: under the key of the user who made the search
CacheLookupAsSearcher(user_id, search_id, page_index) ==
    CacheSearch(cache,
                IF search_id[1] = "s" /\ search_id[2] <= Len(searches)
                  THEN searches[search_id[2]].user_id ELSE user_id,
                search_id, page_index)

\* number_of_hits, page = cache.search(user_id, search_id, index)
CacheLookup(user_id, search_id, page_index) ==
    CacheSearch(cache, user_id, search_id, page_index)

\* cache_search up to the rerank call
CacheSearchBegin(t, query, search_id, page_index, communities, user_id, own_submissions, toggle_webpage_results, url_core_retrieve, cache_up, gateway_down) ==
    IF own_submissions \/ query = ""
    THEN
      /\ UNCHANGED <<cache, sreq>>
      /\ IF ~own_submissions /\ communities = {}
           THEN sresp' = [sresp EXCEPT ![t] =
                    ErrorResponse("INTERNAL_SERVER_ERROR", "no_community", user_id, search_id,
                                  page_index, "none", <<>>)]
           ELSE LET hits == IF own_submissions THEN OwnSubmissions(user_id)
                            ELSE CommunityHits(CommunityOrder(communities)[1])
                IN  sresp' = [sresp EXCEPT ![t] =
                        Response("OK", "bypass", user_id, search_id, page_index, Len(hits),
                                 hydrate_with_hash_url(create_page(PageOf(hits, page_index)),
                                                       search_id, page_index),
                                 <<>>, <<>>, "none", <<>>, "")]
    ELSE
      LET found == IF cache_up THEN CacheLookup(user_id, search_id, page_index)
                   ELSE [total |-> 0, page |-> <<>>, by |-> ""]
          r == [pc |-> IF environ THEN "rerank" ELSE "finish",
                user |-> user_id, search_id |-> search_id, index |-> page_index, query |-> query,
                submissions_pages |->
                    Candidates(communities, toggle_webpage_results, url_core_retrieve),
                cache_up |-> cache_up, pages |-> <<>>, rerank |-> "none"]
      IN  IF found.page # <<>>
            THEN /\ sresp' = [sresp EXCEPT ![t] =
                        Response("OK", "cache", user_id, search_id, page_index, found.total,
                                 found.page, <<>>, <<>>, "none", <<>>, found.by)]
                 /\ UNCHANGED <<cache, sreq>>
          ELSE IF \/ gateway_down = "submissions"
                  \/ gateway_down = "webpages" /\ toggle_webpage_results
            THEN \* the gateway's search raises, which search answers with an error
                 /\ sresp' = [sresp EXCEPT ![t] =
                        ErrorResponse("INTERNAL_SERVER_ERROR", GatewayError(gateway_down),
                                      user_id, search_id, page_index, "none", <<>>)]
                 /\ UNCHANGED <<cache, sreq>>
            ELSE /\ sreq' = [sreq EXCEPT ![t] = r]
                 /\ UNCHANGED <<cache, sresp>>

SearchSources == {"webpage_search", "extension_open"}
SearchUrls == {"http://a/"}
CommunityArgs == {"all"} \cup Communities

\* a community id and a search id that are not well-formed ObjectIds
MalformedCommunity == "zz"
MalformedSearch == <<"zz", 0>>

\* search without search_id: a new search
NewSearch(t) ==
    /\ sreq[t].pc = "idle"
    /\ nreqs < MaxReqs
    /\ Len(searches) < MaxSearches
    /\ \E user \in Users, q \in Queries, source \in SearchSources, url \in SearchUrls,
          community \in CommunityArgs \cup {MalformedCommunity},
          own_submissions \in BOOLEAN, page \in 0..MaxPage,
          cache_up \in BOOLEAN, gateway_down \in GatewayFailures :
        LET url_core == q = "" /\ source = "extension_open"
            query == IF url_core THEN url ELSE q
            URL_CORE_RETRIEVE == IF url_core THEN <<url>> ELSE <<>>
            toggle == (community = "all") /\ ~(q # "" /\ HasHash(q))
            requested_communities ==
                IF community = "all" THEN UserCommunities(user) ELSE {community}
            search_id == <<"s", Len(searches) + 1>>
            rc_dict == requested_communities \cap UserCommunities(user)
            toggle_webpage_results ==
                toggle /\ ~(Cardinality(rc_dict) = 1 /\ Cardinality(UserCommunities(user)) > 1)
        IN  /\ nreqs' = nreqs + 1
            /\ sargs' = [sargs EXCEPT ![t] = Args("new", q, source)]
            /\ IF community = MalformedCommunity
                 THEN \* ObjectId(requested_communities) raises
                      /\ sresp' = [sresp EXCEPT ![t] =
                             ErrorResponse("INTERNAL_SERVER_ERROR", "bad_community", user, <<>>,
                                           page, "none", <<>>)]
                      /\ UNCHANGED <<searches, cache, sreq>>
               ELSE IF community # "all" /\ community \notin UserCommunities(user)
                 THEN /\ sresp' = [sresp EXCEPT ![t] =
                             ErrorResponse("FORBIDDEN", "forbidden", user, <<>>, page, "none", <<>>)]
                      /\ UNCHANGED <<searches, cache, sreq>>
                 ELSE /\ searches' = Append(searches,
                             [user_id |-> user, query |-> query,
                              community |-> requested_communities,
                              own_submissions |-> own_submissions])
                      /\ CacheSearchBegin(t, query, search_id, page, rc_dict, user,
                                          own_submissions, toggle_webpage_results,
                                          URL_CORE_RETRIEVE, cache_up, gateway_down)
    /\ UNCHANGED <<environ, sub_index, web_index, nrecs, rerank_failed, coreVars, restVars>>

\* --- a variant of the session lookup: the own-submissions flag forced on
PriorSearchOwn(search_id) == [searches[search_id[2]] EXCEPT !.own_submissions = TRUE]

\* prior_search = cdl_searches_clicks.find_one({"_id": ObjectId(search_id)})
PriorSearch(search_id) == searches[search_id[2]]

\* search with search_id, from the lookup of the session to the response or
\* the rerank call
PageAnswer(t, user, q, source, url, page, search_id, cache_up, gateway_down) ==
        LET url_core == q = "" /\ source = "extension_open"
            URL_CORE_RETRIEVE == IF url_core THEN <<url>> ELSE <<>>
            toggle == ~(q # "" /\ HasHash(q))
            found == search_id[1] = "s" /\ search_id[2] <= Len(searches)
            prior_search == PriorSearch(search_id)
            rc_dict == prior_search.community \cap UserCommunities(user)
            toggle_webpage_results ==
                toggle /\ ~(Cardinality(rc_dict) = 1 /\ Cardinality(UserCommunities(user)) > 1)
        IN     IF search_id = MalformedSearch
                 THEN \* ObjectId(search_id) raises: the outer except answers
                      /\ sresp' = [sresp EXCEPT ![t] =
                             ErrorResponse("INTERNAL_SERVER_ERROR", "bad_search_id", user, <<>>,
                                           page, "none", <<>>)]
                      /\ UNCHANGED <<cache, sreq>>
               ELSE IF ~found
                 THEN /\ sresp' = [sresp EXCEPT ![t] =
                             ErrorResponse("NOT_FOUND", "not_found", user, search_id, page, "none",
                                           <<>>)]
                      /\ UNCHANGED <<cache, sreq>>
                 ELSE CacheSearchBegin(t, prior_search.query, search_id, page, rc_dict, user,
                                       prior_search.own_submissions, toggle_webpage_results,
                                       URL_CORE_RETRIEVE, cache_up, gateway_down)

\* search with search_id: a page of a previous search
PageSearch(t) ==
    /\ sreq[t].pc = "idle"
    /\ nreqs < MaxReqs
    /\ \E user \in Users, q \in Queries, source \in SearchSources, url \in SearchUrls,
          page \in 0..MaxPage, search_id \in SessionIds \cup {MalformedSearch},
          cache_up \in BOOLEAN, gateway_down \in GatewayFailures :
        /\ nreqs' = nreqs + 1
        /\ sargs' = [sargs EXCEPT ![t] = Args("page", q, source)]
        /\ PageAnswer(t, user, q, source, url, page, search_id, cache_up, gateway_down)
    /\ UNCHANGED <<environ, sub_index, web_index, searches, nrecs, rerank_failed, coreVars, restVars>>

\* requests.post(neural_api + "neural/rerank/") and what comes back
RerankCall(t) ==
    /\ sreq[t].pc = "rerank"
    /\ IF ~environ
         THEN \* os.environ["neural_api"] raises KeyError: no call goes out
              /\ sreq' = [sreq EXCEPT ![t].pc = "except", ![t].rerank = "keyerror"]
              /\ UNCHANGED rerank_failed
         ELSE \E outcome \in {"ok", "non200", "malformed", "error"} :
              /\ rerank_failed' = (rerank_failed \/ outcome # "ok")
              /\ IF outcome = "ok"
                   THEN \E order \in RerankOrders(sreq[t].submissions_pages) :
                          sreq' = [sreq EXCEPT ![t].pc = "finish", ![t].rerank = "ok",
                                               ![t].pages = order]
                   ELSE sreq' = [sreq EXCEPT
                                   ![t].pc = IF outcome = "non200" THEN "finish" ELSE "except",
                                   ![t].rerank = outcome]
    /\ UNCHANGED <<environ, sub_index, web_index, searches, nrecs, cache, sresp, nreqs, sargs,
                   coreVars, restVars>>

\* except Exception: del os.environ["neural_api"]
RerankExcept(t) ==
    /\ sreq[t].pc = "except"
    /\ IF environ
         THEN /\ environ' = FALSE
              /\ sreq' = [sreq EXCEPT ![t].pc = "finish"]
              /\ UNCHANGED sresp
         ELSE \* the del raises KeyError, which search answers with an error
              /\ sresp' = [sresp EXCEPT ![t] =
                     ErrorResponse("INTERNAL_SERVER_ERROR", "rerank_error", sreq[t].user,
                                   sreq[t].search_id, sreq[t].index, sreq[t].rerank,
                                   sreq[t].pages)]
              /\ sreq' = [sreq EXCEPT ![t] = IdleSearch]
              /\ UNCHANGED environ
    /\ UNCHANGED <<sub_index, web_index, searches, nrecs, cache, nreqs, sargs, rerank_failed,
                   coreVars, restVars>>

FinishSearch(t) ==
    /\ sreq[t].pc = "finish"
    /\ Finish(t, sreq[t])
    /\ sreq' = [sreq EXCEPT ![t] = IdleSearch]
    /\ UNCHANGED <<environ, sub_index, web_index, searches, nrecs, nreqs, sargs, rerank_failed,
                   coreVars, restVars>>

RecommendMethods == {"recent", "explore_similar_extension", "explore_user_submissions"}

\* --- a variant of the lookup: always the first page
RecommendLookupFirstPage(user_id, recommendation_id, page_number) ==
    CacheSearch(cache, user_id, recommendation_id, 0)

\* number_of_hits, page = cache.search(user_id_str, recommendation_id, page_number)
RecommendLookup(user_id, recommendation_id, page_number) ==
    CacheSearch(cache, user_id, recommendation_id, page_number)

\* get_recommendations
Recommend(t) ==
    /\ sreq[t].pc = "idle"
    /\ nreqs < MaxReqs
    /\ \E user \in Users, method \in RecommendMethods, page_number \in 0..MaxPage,
          recommendation_id \in Opt(SessionIds), cache_up \in BOOLEAN,
          gateway_down \in GatewayFailures :
        LET requested_communities == UserCommunities(user)
            new_id == <<"r", nrecs + 1>>
            hits == SubmissionsSearch(requested_communities)
            recent_pages == hydrate_with_hash_url(create_page(hits), new_id, 0)
            merged == combine_pages(create_page(hits), create_page(web_index))
            explore_pages == RecommendedList(merged, new_id)
            pages == IF method = "recent" THEN recent_pages ELSE explore_pages
        IN  /\ nreqs' = nreqs + 1
            /\ sargs' = [sargs EXCEPT ![t] =
                   Args(IF IsNone(recommendation_id) THEN "new" ELSE "page", "", method)]
            /\ IF ~cache_up
                 THEN /\ sresp' = [sresp EXCEPT ![t] =
                             ErrorResponse("INTERNAL_SERVER_ERROR", "no_cache", user,
                                           IF IsNone(recommendation_id) THEN <<>>
                                           ELSE Val(recommendation_id),
                                           page_number, "none", <<>>)]
                      /\ UNCHANGED <<nrecs, cache>>
               ELSE IF IsNone(recommendation_id)
                 THEN /\ nrecs < MaxRecs
                      /\ nrecs' = nrecs + 1
                      /\ IF method = "explore_similar_extension" /\ gateway_down # "none"
                           THEN \* the gateway's search raises: answered with an error
                                /\ sresp' = [sresp EXCEPT ![t] =
                                       ErrorResponse("INTERNAL_SERVER_ERROR",
                                                     GatewayError(gateway_down), user, new_id,
                                                     page_number, "none", <<>>)]
                                /\ UNCHANGED cache
                         ELSE IF method \in {"recent", "explore_similar_extension"}
                           THEN /\ cache' = CacheInsert(cache, user, new_id, pages, method)
                                /\ sresp' = [sresp EXCEPT ![t] =
                                       Response("OK", method, user, new_id, page_number, Len(hits),
                                                PageOf(pages, page_number),
                                                IF method = "recent" THEN <<>> ELSE merged,
                                                pages, "none", <<>>, user)]
                           ELSE \* no branch sets page and number_of_hits: NameError
                                /\ sresp' = [sresp EXCEPT ![t] =
                                       ErrorResponse("INTERNAL_SERVER_ERROR", "no_method", user, new_id,
                                                     page_number, "none", <<>>)]
                                /\ UNCHANGED cache
                 ELSE LET found == RecommendLookup(user, Val(recommendation_id), page_number)
                      IN  /\ sresp' = [sresp EXCEPT ![t] =
                                 Response("OK", "cache", user, Val(recommendation_id), page_number,
                                          found.total, found.page, <<>>, <<>>, "none", <<>>,
                                          found.by)]
                          /\ UNCHANGED <<nrecs, cache>>
    /\ UNCHANGED <<environ, sub_index, web_index, searches, sreq, rerank_failed, coreVars, restVars>>

\* a cached list reaches the end of its lifetime
CacheExpire ==
    /\ \E k \in Users \X SessionIds :
        /\ cache[k].present
        /\ cache' = [cache EXCEPT ![k] = NoCache]
    /\ UNCHANGED <<environ, sub_index, web_index, searches, nrecs, sreq, sresp, nreqs, sargs,
                   rerank_failed, coreVars, restVars>>

\* the store holds one '#core' submission (so one community-core entry); the
\* two indexes hold any ranked lists of hits
SeedEffect == CreateEffect(<<>>, {}, "u1", {"#core", "#a"}, "http://a/", {"#a", "w"}, "c1")

SearchInitWith(sub_lists, web_lists) ==
    /\ logs = SeedEffect.logs
    /\ index = SeedEffect.index
    /\ core = ApplyCalls(InitCore, SeedEffect.calls)
    /\ serial = ApplyCalls(InitCore, SeedEffect.calls)
    /\ resp = [op |-> "create", status |-> "OK"]
    /\ nops = 1
    /\ creq = [r \in Threads |-> IdleReq]
    /\ environ = TRUE
    /\ sub_index \in sub_lists
    /\ web_index \in web_lists
    /\ searches = <<>>
    /\ nrecs = 0
    /\ cache = [k \in Users \X SessionIds |-> NoCache]
    /\ sreq = [t \in Threads |-> IdleSearch]
    /\ sresp = [t \in Threads |-> NoResponse]
    /\ nreqs = 0
    /\ sargs = [t \in Threads |-> NoArgs]
    /\ rerank_failed = FALSE
    /\ RestIdle

\* the ranked lists of as many hits as an index returns
FullLists(pool) == {l \in RankedLists(pool) : \A m \in RankedLists(pool) : Len(m) <= Len(l)}

\* the submissions index is full, the webpages index full or empty
SearchInit == SearchInitWith(FullLists(SubPool), FullLists(WebPool) \cup {<<>>})

SearchSteps(t) == RerankCall(t) \/ RerankExcept(t) \/ FinishSearch(t)

\* requests handled one at a time
SearchNext ==
    \/ NewSearch(1) \/ PageSearch(1) \/ Recommend(1)
    \/ SearchSteps(1)
    \/ CacheExpire

SearchSpec == SearchInit /\ [][SearchNext]_vars

\* requests handled by concurrent threads
SearchConcNext ==
    \/ \E t \in Threads : NewSearch(t) \/ PageSearch(t) \/ Recommend(t) \/ SearchSteps(t)
    \/ CacheExpire

\* the ranked list of the best hits of a pool
BestLists(pool) ==
    {l \in FullLists(pool) :
        \A m \in FullLists(pool) : \A i \in 1..Len(l) : l[i]._score >= m[i]._score}

SearchConcInit == SearchInitWith(BestLists(SubPool), BestLists(WebPool))

SearchConcSpec == SearchConcInit /\ [][SearchConcNext]_vars

\* ------------------------ submission requests whose ids may be malformed
\* the id of a community that does not exist
UnknownCommunity == "c9"

CommunityIdArgs == Communities \cup {MalformedCommunity, UnknownCommunity}

\* the response also records which request it answers and what its ids were:
\* "malformed", "unknown_community" or "known"
HandleRequest(op, e, ids) ==
    /\ logs' = e.logs
    /\ index' = e.index
    /\ core' = ApplyCalls(core, e.calls)
    /\ resp' = [op |-> op, status |-> e.status, ids |-> ids, at |-> nops + 1]
    /\ nops' = nops + 1
    /\ UNCHANGED <<creq, serial, searchVars, restVars>>

\* what the outer except of a handler answers when ObjectId() raises
Raised == Effect(logs, index, <<>>, "INTERNAL_SERVER_ERROR")

\* create_submission: ObjectId(community) raises in create_submission_helper
CreateRequest ==
    /\ nops < MaxOps
    /\ Len(logs) < MaxSubs
    /\ \E user \in Users, ht \in HighlightedTexts, url \in Urls, ex \in Explanations,
       community \in CommunityIdArgs :
        IF community = MalformedCommunity
          THEN HandleRequest("create", Raised, "malformed")
          ELSE HandleRequest("create", CreateEffect(logs, index, user, ht, url, ex, community),
                             IF community = UnknownCommunity THEN "unknown_community"
                             ELSE "known")

\* submission DELETE, with or without a community_id
DeleteRequest ==
    /\ nops < MaxOps
    /\ \E user \in Users, id \in IdArgs, community_id \in Opt(CommunityIdArgs) :
        LET malformed == id = BadId \/ community_id = {MalformedCommunity}
        IN  IF IsNone(community_id)
              THEN IF id = BadId THEN HandleRequest("delete", Raised, "malformed")
                   ELSE HandleRequest("delete", DeleteEffect(logs, index, user, id), "known")
              ELSE IF malformed THEN HandleRequest("remove", Raised, "malformed")
                   ELSE HandleRequest("remove",
                                      RemoveEffect(logs, index, user, id, Val(community_id)),
                                      IF Val(community_id) = UnknownCommunity
                                        THEN "unknown_community" ELSE "known")

\* submission PATCH
PatchRequest ==
    /\ nops < MaxOps
    /\ \E user \in Users, id \in IdArgs, community_id \in Opt(CommunityIdArgs),
       ht \in Opt(HighlightedTexts), ex \in Opt(Explanations), url \in Opt(Urls) :
        LET malformed == id = BadId \/ community_id = {MalformedCommunity}
            e == IF IsNone(community_id) /\ Falsy(ht) /\ Falsy(ex)
                   THEN Effect(logs, index, <<>>, "BAD_REQUEST")
                 ELSE IF id = BadId THEN Effect(logs, index, <<>>, "NOT_FOUND")
                 ELSE IF ~Exists(logs, id) THEN Effect(logs, index, <<>>, "NOT_FOUND")
                 ELSE IF logs[id].user_id # user THEN Effect(logs, index, <<>>, "FORBIDDEN")
                 ELSE IF community_id = {MalformedCommunity} THEN Raised
                 ELSE PatchEffect(logs, index, user, id, community_id, ht, ex, url)
        IN  HandleRequest("patch", e,
                          IF malformed THEN "malformed"
                          ELSE IF community_id = {UnknownCommunity} THEN "unknown_community"
                          ELSE "known")

\* requests of all kinds, one at a time, a bounded number in all
MalformedNext ==
    \/ /\ nops + nreqs < MaxOps
       /\ \/ CreateRequest \/ DeleteRequest \/ PatchRequest \/ Connect
          \/ NewSearch(1) \/ PageSearch(1) \/ Recommend(1)
    \/ SearchSteps(1)

MalformedSpec == SearchConcInit /\ [][MalformedNext]_vars

\* ------------------------------------------------------ batch submission
MaxBatch == 2

\* an item of the batch; a broken item lacks one of the keys the handler reads
BatchItem(highlighted_text, source_url, explanation, broken) ==
    [highlighted_text |-> highlighted_text, source_url |-> source_url,
     explanation |-> explanation, broken |-> broken]

BatchItems ==
    {BatchItem({}, "http://a", {"#a", "w"}, FALSE),
     BatchItem({}, "http://b", {"#core", "#b", "w"}, FALSE),
     BatchItem({}, "http://a", {}, FALSE),
     BatchItem({}, "http://b", {"#a", "w"}, TRUE)}

BatchData == UNION {[1..n -> BatchItems] : n \in 0..MaxBatch}

\* the state and the results before the first item
BatchStart == [logs |-> logs, index |-> index, core |-> core, results |-> <<>>]

ItemError(acc, status) == [acc EXCEPT !.results = Append(@, [status |-> status, submission_id |-> 0])]

\* --- a variant of the loop body: nothing is tried after the first failure
SubmitItemUntilError(acc, user, community, item) ==
    IF \E i \in 1..Len(acc.results) : acc.results[i].status # "OK"
      THEN ItemError(acc, "INTERNAL_SERVER_ERROR")
    ELSE IF item.broken \/ community = MalformedCommunity
      THEN ItemError(acc, "INTERNAL_SERVER_ERROR")
    ELSE LET e == CreateEffect(acc.logs, acc.index, user, item.highlighted_text,
                               item.source_url, item.explanation, community)
         IN  [logs |-> e.logs, index |-> e.index, core |-> ApplyCalls(acc.core, e.calls),
              results |-> Append(acc.results,
                                 [status |-> e.status,
                                  submission_id |-> IF e.status = "OK" THEN Len(e.logs) ELSE 0])]

\* create_batch_submission: the body of the loop, for one item
SubmitItem(acc, user, community, item) ==
    IF item.broken \/ community = MalformedCommunity
      THEN \* a KeyError, or ObjectId(community) raising in the helper: except branch
           ItemError(acc, "INTERNAL_SERVER_ERROR")
    ELSE LET e == CreateEffect(acc.logs, acc.index, user, item.highlighted_text,
                               item.source_url, item.explanation, community)
         IN  [logs |-> e.logs, index |-> e.index, core |-> ApplyCalls(acc.core, e.calls),
              results |-> Append(acc.results,
                                 [status |-> e.status,
                                  submission_id |-> IF e.status = "OK" THEN Len(e.logs) ELSE 0])]

\* for i, submission in enumerate(data)
RECURSIVE SubmitAll(_, _, _, _)
SubmitAll(acc, user, community, data) ==
    IF data = <<>> THEN acc
    ELSE SubmitAll(SubmitItem(acc, user, community, Head(data)), user, community, Tail(data))

\* create_batch_submission
Batch ==
    /\ nops < MaxOps
    /\ \E user \in Users, community \in CommunityIdArgs, data \in BatchData :
        LET done == SubmitAll(BatchStart, user, community, data)
            errors == {i \in 1..Len(done.results) : done.results[i].status # "OK"}
        IN  /\ Len(logs) + Len(data) <= MaxSubs
            /\ logs' = done.logs
            /\ index' = done.index
            /\ core' = done.core
            /\ resp' = [op |-> "batch",
                        status |-> IF errors = {} THEN "OK" ELSE "INTERNAL_SERVER_ERROR",
                        results |-> done.results,
                        user |-> user, community |-> community, data |-> data]
            /\ nops' = nops + 1
    /\ UNCHANGED <<creq, serial, searchVars, restVars>>

BatchNext == Batch \/ Create \/ Delete

BatchSpec == Init /\ [][BatchNext]_vars

\* ------------------------------------- a reranker that never answers
\* requests.post(...) is called without a timeout argument: when the reranker
\* accepts the connection and never answers, the call does not return
RerankNoAnswer(t) ==
    /\ sreq[t].pc = "rerank"
    /\ environ
    /\ sreq' = [sreq EXCEPT ![t].pc = "waiting"]
    /\ UNCHANGED <<environ, sub_index, web_index, searches, nrecs, cache, sresp, nreqs, sargs,
                   rerank_failed, coreVars, restVars>>

SearchLiveNext ==
    \/ NewSearch(1) \/ PageSearch(1)
    \/ SearchSteps(1) \/ RerankNoAnswer(1)

\* the thread that handles a request keeps running: a step of the handler
\* that can be taken is taken
SearchLiveSpec ==
    /\ SearchConcInit
    /\ [][SearchLiveNext]_vars
    /\ WF_vars(SearchSteps(1) \/ RerankNoAnswer(1))

\* ------------------------------------------------------------------ claims
\* the submissions that currently contribute to (comm, url): '#core'-tagged,
\* not deleted, in the community, with that normalized url
Contributors(comm, url) ==
    {i \in 1..Len(logs) :
        /\ ~logs[i].deleted
        /\ "#core" \in TagsOf(logs[i])
        /\ comm \in Range(AllCommunitiesList(logs[i].communities))
        /\ standardize_url(logs[i].source_url) = url}

ExpectedHashtags(comm, url) ==
    UNION {TagsOf(logs[i]) \ {"#core"} : i \in Contributors(comm, url)}

\* C1: after any sequence of create / PATCH / remove-from-community / DELETE
\* requests, every community-core entry's hashtag set is exactly the union
\* of the non-marker hashtags of the submissions currently contributing to it.
C1_CoreIsUnionOfContributors ==
    \A k \in Communities \X StdUrls :
        EntryHashtags(core, k[1], k[2]) = ExpectedHashtags(k[1], k[2])

AllIdle == \A r \in Threads : creq[r].pc = "idle"

\* C2: concurrent community-core updates lose nothing: once the requests
\* have finished, the core is what the update calls give when each runs as
\* a whole, one after the other.
C2_NoLostUpdate == AllIdle => core = serial

\* --------------------------------------------------------- claims: fusion
OkResponses == {t \in Threads : sresp[t].status = "OK"}

\* the responses of requests that fused and cached a list
Fused == {t \in OkResponses : sresp[t].via = "fused"}
FusedOrExplored ==
    {t \in OkResponses : sresp[t].via \in {"fused", "explore_similar_extension"}}

NormUrl(item) == standardize_url(item.url)

DistinctUrls(pages) ==
    \A i, j \in 1..Len(pages) : i # j => NormUrl(pages[i]) # NormUrl(pages[j])

\* C3: every list the fused search (on a cache miss) or explore_similar puts
\* in the session cache has no two items with the same normalized url, however
\* many pages it spans: the whole list is deduplicated before it is paged.
C3_CachedListHasDistinctUrls ==
    \A k \in Users \X SessionIds :
        (cache[k].present /\ cache[k].via \in {"fused", "explore_similar_extension"})
            => DistinctUrls(cache[k].pages)

\* a cached list of more than one page whose candidates shared a url
C3_Witness ==
    \E t \in Fused :
        /\ cache[<<sresp[t].user, sresp[t].session_id>>].present
        /\ cache[<<sresp[t].user, sresp[t].session_id>>].pages = sresp[t].cached
        /\ Len(sresp[t].cached) > PageSize
        /\ ~DistinctUrls(sresp[t].merged)

Group(pages, url) == {i \in 1..Len(pages) : NormUrl(pages[i]) = url}

IsBestOf(pages, G, x) ==
    /\ \E i \in G : pages[i].id = x.id /\ pages[i].score = x.score
    /\ \A i \in G : pages[i].score <= x.score

\* C4: of the candidates of a fused list that share a normalized url exactly
\* one is in the list, and it has the highest score among them; deduplicating
\* the deduplicated list again gives the same list.
C4_OneBestSurvivorPerUrl ==
    \A t \in FusedOrExplored :
        LET merged == sresp[t].merged
            cached == sresp[t].cached
            once   == deduplicate(SortedByScore(merged))
        IN  /\ \A i \in 1..Len(merged) :
                  LET survivors == Group(cached, NormUrl(merged[i]))
                  IN  /\ Cardinality(survivors) = 1
                      /\ \A k \in survivors :
                            IsBestOf(merged, Group(merged, NormUrl(merged[i])), cached[k])
            /\ \A k \in 1..Len(cached) : Group(merged, NormUrl(cached[k])) # {}
            /\ deduplicate(once) = once
            /\ deduplicate(cached) = cached

\* a fused list with two candidates of one url (written differently) and of
\* different scores
C4_Witness ==
    \E t \in Fused :
        \E i, j \in 1..Len(sresp[t].merged) :
            /\ NormUrl(sresp[t].merged[i]) = NormUrl(sresp[t].merged[j])
            /\ sresp[t].merged[i].url # sresp[t].merged[j].url
            /\ sresp[t].merged[i].score < sresp[t].merged[j].score

\* where an item first appears among the candidates
FirstSeen(pages, x) ==
    CHOOSE i \in 1..Len(pages) :
        /\ pages[i].id = x.id /\ pages[i].score = x.score
        /\ \A j \in 1..(i - 1) : ~(pages[j].id = x.id /\ pages[j].score = x.score)

NonIncreasing(pages) ==
    \A i, j \in 1..Len(pages) : i < j => pages[i].score >= pages[j].score

Ids(pages) == [i \in 1..Len(pages) |-> pages[i].id]

\* C5: a fused list is in non-increasing score order, items of equal score
\* in the order they first appear among the merged candidates; submissions
\* {a: 9, b: 5} and webpages {b: 7, c: 3} fuse to [a: 9, b: 7, c: 3].
C5_SortedByScoreStable ==
    \A t \in Fused :
        LET merged == sresp[t].merged
            cached == sresp[t].cached
        IN  /\ NonIncreasing(cached)
            /\ \A i, j \in 1..Len(cached) :
                  (i < j /\ cached[i].score = cached[j].score)
                      => FirstSeen(merged, cached[i]) < FirstSeen(merged, cached[j])
            /\ Ids(merged) = <<"s1", "s2", "w1", "w2">> => Ids(cached) = <<"s1", "w1", "w2">>

\* a fused list of three whose last two tie, the candidates not in score order
C5_Witness ==
    \E t \in Fused :
        /\ Len(sresp[t].cached) = 3
        /\ sresp[t].cached[1].score > sresp[t].cached[2].score
        /\ sresp[t].cached[2].score = sresp[t].cached[3].score
        /\ ~NonIncreasing(sresp[t].merged)

\* ------------------------------------------------------- claims: reranker
CallFailures == {"error", "non200", "malformed"}

\* C6: when the rerank call succeeds, the list that is cached and paged is
\* in the order the reranker returned.
C6_RerankedOrderKept ==
    \A t \in Fused :
        sresp[t].rerank = "ok" =>
            \A i, j \in 1..Len(sresp[t].cached) :
                i < j => FirstSeen(sresp[t].reranked, sresp[t].cached[i])
                           < FirstSeen(sresp[t].reranked, sresp[t].cached[j])

\* C7: when a request whose rerank call failed (connection error, non-200
\* response or malformed payload) has finished, the reranker is disabled.
C7_FailureDisablesReranker ==
    \A t \in Threads :
        (sresp[t].status # "none" /\ sresp[t].rerank \in CallFailures) => ~environ

\* a rerank call goes out on the network
CallIssued(t) ==
    /\ sreq[t].pc = "rerank"
    /\ environ
    /\ sreq'[t].pc # "rerank"

\* C8: once a rerank call has failed no request issues a rerank call, the
\* reranker is not enabled again, and every fused list is in score order.
C8_NoCallAfterFailure ==
    [][rerank_failed =>
          /\ \A t \in Threads : ~CallIssued(t)
          /\ (~environ => ~environ')
          /\ \A t \in Threads :
                (sresp'[t].status = "OK" /\ sresp'[t].via = "fused")
                    => NonIncreasing(sresp'[t].cached)]_vars

\* C9: a request whose rerank call failed is answered with the page of the
\* score-sorted list, not with an error, whatever other requests do meanwhile
\* (a request whose cache connection failed aside).
C9_FailureNeverSurfaced ==
    \A t \in Threads :
        (sresp[t].rerank \in CallFailures /\ sresp[t].via # "cache_error") =>
            /\ sresp[t].status = "OK"
            /\ NonIncreasing(sresp[t].cached)
            /\ sresp[t].results = PageOf(sresp[t].cached, sresp[t].index)

\* ---------------------------------------------------------- claims: cache
\* C10: a page returned to a user is cut from a list cached for that user,
\* also when the session id is one of another user's search.
C10_PageFromOwnList ==
    \A t \in OkResponses :
        (sresp[t].via # "bypass" /\ sresp[t].results # <<>>) => sresp[t].by = sresp[t].user

\* u2 is returned a page for the id of u1's search while u1's list is cached
C10_Witness ==
    \E t \in OkResponses :
        /\ sresp[t].user = "u2"
        /\ sresp[t].session_id = <<"s", 1>>
        /\ Len(searches) >= 1 /\ searches[1].user_id = "u1"
        /\ cache[<<"u1", <<"s", 1>>>>].present
        /\ sresp[t].results # <<>>

\* --------------------------------------------------------- claims: paging
\* a response that carries a page of a search session's cached list
Paged(r) == r.status = "OK" /\ r.via \in {"fused", "cache"} /\ r.session_id[1] = "s"

KeyOf(r) == <<r.user, r.session_id>>

\* the thread answers with a new response
Answers(t) == sresp'[t] # sresp[t]

\* C11: with the indexes unchanged and the cached list not expired, the
\* pages returned for one search session, one after the other, are slices
\* PageOf(L, index) of one list L, and each reports Len(L) as the total count.
C11_PagesAreSlicesOfOneList ==
    [][\A t \in Threads :
          (/\ Answers(t)
           /\ Paged(sresp[t]) /\ Paged(sresp'[t])
           /\ KeyOf(sresp[t]) = KeyOf(sresp'[t])
           /\ cache[KeyOf(sresp[t])].present)
          => LET L == cache'[KeyOf(sresp[t])].pages
             IN  /\ sresp[t].total = Len(L) /\ sresp'[t].total = Len(L)
                 /\ sresp[t].results = PageOf(L, sresp[t].index)
                 /\ sresp'[t].results = PageOf(L, sresp'[t].index)]_vars

\* C12: while a search session's list is cached (and the cache can be
\* opened), no request for a page of that session, whatever its page index, is
\* past the cache lookup: it queries no gateway, fuses nothing, inserts nothing.
C12_CachedSessionServedFromCache ==
    \A t \in Threads :
        (sreq[t].pc # "idle" /\ sreq[t].cache_up)
            => ~cache[<<sreq[t].user, sreq[t].search_id>>].present

\* the page index lies past the last page of the list
PastTheEnd(pages, page_index) == page_index * PageSize >= Len(pages)

\* C13: a page past the last page of a cached list is empty and comes with
\* the list's total count, when the request inserts the list and when a later
\* request finds it cached.
C13_PagePastTheEndIsEmpty ==
    [][\A t \in Threads :
          (Answers(t) /\ Paged(sresp'[t])) =>
              /\ (sresp'[t].via = "fused" /\ PastTheEnd(sresp'[t].cached, sresp'[t].index))
                    => (sresp'[t].results = <<>> /\ sresp'[t].total = Len(sresp'[t].cached))
              /\ (/\ cache[KeyOf(sresp'[t])].present
                  /\ PastTheEnd(cache[KeyOf(sresp'[t])].pages, sresp'[t].index))
                    => /\ sresp'[t].results = <<>>
                       /\ sresp'[t].total = Len(cache[KeyOf(sresp'[t])].pages)]_vars

\* --------------------------------------------------------- claims: bypass
\* the response answers a request of an existing search session
OfSession(r) ==
    /\ r.session_id # <<>>
    /\ r.session_id[1] = "s"
    /\ r.session_id[2] <= Len(searches')

SessionOf(r) == searches'[r.session_id[2]]

\* the communities of the session the requesting user is in
ScopeOf(r) == SessionOf(r).community \cap UserCommunities(r.user)

\* the page the one gateway query of the bypass returns
BypassPage(r) ==
    LET hits == IF SessionOf(r).own_submissions THEN OwnSubmissions(r.user)
                ELSE CommunityHits(CommunityOrder(ScopeOf(r))[1])
    IN  hydrate_with_hash_url(create_page(PageOf(hits, r.index)), r.session_id, r.index)

\* C14: a search for own submissions or with an empty derived query leaves
\* the cache as it is, calls neither reranker nor webpages gateway, and returns
\* the hydrated page of one submissions-gateway query.
C14_BypassQueriesOnce ==
    [][\A t \in Threads :
          (/\ Answers(t)
           /\ sargs'[t].source \in SearchSources
           /\ OfSession(sresp'[t])
           /\ SessionOf(sresp'[t]).own_submissions \/ SessionOf(sresp'[t]).query = "")
          => /\ cache' = cache
             /\ sreq[t].pc = "idle" /\ sreq'[t].pc = "idle"
             /\ sresp'[t].status = "OK"
             /\ sresp'[t].results = BypassPage(sresp'[t])]_vars

\* --------------------------------------------------------- claims: sessions
\* thread t takes a new request in this step
Requests(t) ==
    /\ nreqs' = nreqs + 1
    /\ \A u \in Threads \ {t} :
          sreq'[u] = sreq[u] /\ sresp'[u] = sresp[u] /\ sargs'[u] = sargs[u]

\* the sessions the step adds to the two session stores
Created == (Len(searches') - Len(searches)) + (nrecs' - nrecs)

\* the sessions stored before the step are as they were
SessionsKept ==
    /\ Len(searches') >= Len(searches)
    /\ SubSeq(searches', 1, Len(searches)) = searches
    /\ nrecs' >= nrecs

\* the request is turned away before its session is logged
RejectedVias == {"forbidden", "no_cache", "bad_community"}
Rejected(t) == sreq'[t].pc = "idle" /\ sresp'[t].via \in RejectedVias

\* the community a submission was made in
CommunityOfId(id) == (CHOOSE h \in SubPool : h.id = id).community

\* a page request of a stored search works with the stored query, scope and
\* own-submissions flag
FromStored(t) ==
    LET computing == sreq'[t].pc # "idle"
        session_id == IF computing THEN sreq'[t].search_id ELSE sresp'[t].session_id
        stored == searches[session_id[2]]
    IN  /\ stored.own_submissions => (~computing /\ sresp'[t].via = "bypass")
        /\ (~computing /\ sresp'[t].via = "bypass")
              => (stored.own_submissions \/ stored.query = "")
        /\ computing =>
              /\ sreq'[t].query = stored.query
              /\ \A i \in 1..Len(sreq'[t].submissions_pages) :
                    sreq'[t].submissions_pages[i].kind = "submission"
                    => CommunityOfId(sreq'[t].submissions_pages[i].id) \in stored.community

PageOfStoredSearch(t) ==
    /\ sargs'[t].kind = "page"
    /\ sargs'[t].source \in SearchSources
    /\ sreq'[t].pc = "idle" => OfSession(sresp'[t])
    /\ sreq'[t].pc # "idle" => sreq'[t].search_id[2] <= Len(searches)

BaseScore(id) == (CHOOSE h \in SubPool \cup WebPool : h.id = id)._score

ScoreChanged(item) == item.score # BaseScore(item.id)

SubmissionItems(pages) == SelectSeq(pages, LAMBDA p : p.kind = "submission")

\* the request thread t is working on is a page-open request without a query
PageOpen(t) == sargs[t].q = "" /\ sargs[t].source = "extension_open"

\* the communities the search thread t is working on runs in
ScopeOfRequest(t) ==
    searches[sreq[t].search_id[2]].community \cap UserCommunities(sreq[t].user)

\* a scoped community has a core entry for the normalized target url
CoreEntryInScope(t) ==
    \E c \in ScopeOfRequest(t), url \in SearchUrls : core[<<c, standardize_url(url)>>].present

\* C16: the candidates of a search hold core-boosted hits only if the request
\* is a page-open request without a query and a scoped community has a core
\* entry for the normalized target url; in every other search the submission
\* candidates are the hits of the submissions query, scores unchanged.
C16_CoreBoostOnlyOnPageOpen ==
    \A t \in Threads : sreq[t].pc # "idle" =>
        LET subs == SubmissionItems(sreq[t].submissions_pages) IN
        /\ (\E i \in 1..Len(subs) : ScoreChanged(subs[i]))
              => (PageOpen(t) /\ CoreEntryInScope(t))
        /\ ~(PageOpen(t) /\ CoreEntryInScope(t))
              => subs = create_page(SubmissionsSearch(ScopeOfRequest(t)))

\* a page-open search without a query has a boosted hit among its candidates
C16_Witness ==
    \E t \in Threads :
        /\ sreq[t].pc # "idle"
        /\ PageOpen(t) /\ CoreEntryInScope(t)
        /\ \E i \in 1..Len(sreq[t].submissions_pages) :
              ScoreChanged(sreq[t].submissions_pages[i])

\* the hits the core queries of the search thread t is working on return: the
\* hits of a scoped community with a core entry for the target url that carry
\* one of the entry's hashtags
CoreQueryHits(t) ==
    IF ~PageOpen(t) THEN {}
    ELSE {h \in Range(sub_index) :
            /\ h.community \in ScopeOfRequest(t)
            /\ \E url \in SearchUrls :
                  /\ core[<<h.community, standardize_url(url)>>].present
                  /\ h.tags \cap EntryHashtags(core, h.community, standardize_url(url)) # {}}

Positions(pages, id, score) == {i \in 1..Len(pages) : pages[i].id = id /\ pages[i].score = score}

C18_GatewayFailureTolerated ==
    \A t \in Threads :
        sresp[t].via \in {"submissions_down", "webpages_down"} => sresp[t].status = "OK"

\* C19: a search that finds the session cache closed still returns its page
\* and total count.
C19_CacheFailureTolerated ==
    \A t \in Threads : sresp[t].via = "cache_error" => sresp[t].status = "OK"

\* C20: a submission create, PATCH, remove-from-community or DELETE during
\* which a community-core update raises reports to the caller what it
\* reports when no update raises.
C20_CoreUpdateFailureTolerated ==
    resp.raised > 0 => resp.status = resp.expected

\* ------------------------------------------------------ claims: termination
\* C21: every search request that was taken up is answered in the end, also
\* when the reranker never answers.
C21_EverySearchReturns ==
    \A t \in Threads : (sreq[t].pc # "idle") ~> (sreq[t].pc = "idle")

\* ------------------------------------------------------ claims: result hash
HashesDistinct(items) ==
    \A i, j \in 1..Len(items) : i # j => items[i].result_hash # items[j].result_hash

\* C22: the items shown within one session (the full list of a search or
\* recommendation session, the page of a direct gateway query, a submission
\* view with its connections) carry pairwise different result hashes.
C22_ResultHashUnique ==
    /\ HashesDistinct(vresp.items)
    /\ \A k \in DOMAIN cache : HashesDistinct(cache[k].pages)
    /\ \A t \in Threads : HashesDistinct(sresp[t].results)

\* the rank of every item is its 0-based position in the list
RankedByPosition(pages) == \A i \in 1..Len(pages) : pages[i].rank = i - 1

\* C23: in every cached fused list the rank of an item is its 0-based
\* position in the full list, whatever page index the request that computed
\* the list asked for.
C23_RankIsPositionInFullList ==
    \A k \in DOMAIN cache :
        (cache[k].present /\ cache[k].via = "fused") => RankedByPosition(cache[k].pages)

\* ---------------------------------------------------- claims: derived query
Derived == calc.op = "derived"

\* C24: a non-empty query argument is the derived query, cut to the limit of
\* characters, whatever the other arguments are.
C24_QueryUsedAsIs ==
    (Derived /\ calc.query # <<>>) => calc.result = Truncate(calc.query)

\* the text with every hash character blanked and nothing else changed
HashesBlanked(text, result) ==
    /\ Len(result) = Len(text)
    /\ \A i \in 1..Len(text) : result[i] = (IF text[i] = "#" THEN " " ELSE text[i])

\* C25: a page-open search with an empty query derives the url when there is
\* no highlighted text, the highlighted text with its hash characters blanked
\* when it has fewer words than the threshold, and else the key phrases of
\* the blanked text joined by blanks.
C25_PageOpenQuery ==
    (Derived /\ calc.query = <<>> /\ calc.source = "extension_open") =>
        LET text == Truncate(calc.highlighted_text) IN
        IF text = <<>> THEN calc.result = calc.url
        ELSE IF Len(Words(text)) < WordLimit THEN HashesBlanked(text, calc.result)
        ELSE \E blanked \in Texts :
                /\ HashesBlanked(text, blanked)
                /\ calc.result \in Joins(Range(Words(blanked)))

\* a short highlighted text with a hash character was turned into the query
C25_Witness ==
    /\ Derived /\ calc.query = <<>> /\ calc.source = "extension_open"
    /\ Len(Words(Truncate(calc.highlighted_text))) = 1
    /\ \E i \in 1..Len(calc.result) : calc.highlighted_text[i] = "#" /\ calc.result[i] = " "

\* ----------------------------------------------------- claims: explore terms
\* the terms the user's recent activity yields, as a bag
ActivityTerms == UNION {Range(Words(p)) : p \in calc.phrases}

ActivityTermCount ==
    LET RECURSIVE Sum(_)
        Sum(ps) == IF ps = {} THEN 0
                   ELSE LET p == CHOOSE q \in ps : TRUE IN Len(Words(p)) + Sum(ps \ {p})
    IN  Sum(calc.phrases)

\* C26: the derived query of explore_similar has between one term and the
\* limit of terms: all candidate terms when they are no more than the limit,
\* else exactly the limit, drawn from the candidates; and terms of the default
\* set when the recent activity yields no term.
C26_ExploreTermsBounded ==
    calc.op = "explored" =>
        /\ Len(calc.result) >= 1
        /\ Len(calc.result) <= TermLimit
        /\ ActivityTermCount = 0 => Range(calc.result) \subseteq Range(Words(DefaultText))
        /\ (ActivityTermCount > 0 /\ ActivityTermCount <= TermLimit)
              => (Len(calc.result) = ActivityTermCount /\ Range(calc.result) = ActivityTerms)
        /\ ActivityTermCount > TermLimit
              => (Len(calc.result) = TermLimit /\ Range(calc.result) \subseteq ActivityTerms)

\* ------------------------------------------- claims: recommendation pages
\* thread t takes a recommendation request that supplies a recommendation id
RecommendationPage(t) ==
    /\ Requests(t)
    /\ sargs'[t].kind = "page"
    /\ sargs'[t].source \in RecommendMethods

\* the step creates no session, writes nothing to the cache, starts no
\* pipeline and its answer carries no gateway output
NoComputation(t) ==
    /\ Created = 0
    /\ searches' = searches
    /\ cache' = cache
    /\ sreq'[t] = sreq[t]
    /\ sresp'[t].merged = <<>>

\* the answer is the page and count the cache holds for (user, id, page)
AnswersFromCache(r) ==
    LET e == cache[<<r.user, r.session_id>>]
    IN  /\ r.results = (IF e.present THEN PageOf(e.pages, r.index) ELSE <<>>)
        /\ r.total = (IF e.present THEN e.total ELSE 0)

\* C27 as stated: a recommendation request that supplies a recommendation id
\* creates no session, queries no gateway, writes nothing to the cache and
\* returns exactly what the cache holds for (user, recommendation id, page).
C27_RecommendationPageReadsCache ==
    [][\A t \in Threads : RecommendationPage(t) =>
          (NoComputation(t) /\ AnswersFromCache(sresp'[t]))]_vars

\* C27 amended: such a request creates no session, queries no gateway and
\* writes nothing to the cache; it returns with success exactly what the cache
\* holds for (user, recommendation id, page) when the cache can be opened, and
\* an error without results when it cannot.
C27_RecommendationPageReadsOpenCache ==
    [][\A t \in Threads : RecommendationPage(t) =>
          /\ NoComputation(t)
          /\ sresp'[t].via # "no_cache"
                => (sresp'[t].status = "OK" /\ AnswersFromCache(sresp'[t]))
          /\ sresp'[t].via = "no_cache"
                => (sresp'[t].status = "INTERNAL_SERVER_ERROR" /\ sresp'[t].results = <<>>)]_vars

\* a recommendation page request was answered with the second, non-empty page
\* of a cached list
C27_Witness ==
    \E t \in Threads :
        /\ sargs[t].kind = "page" /\ sargs[t].source \in RecommendMethods
        /\ sresp[t].status = "OK" /\ sresp[t].via = "cache"
        /\ sresp[t].index = 1
        /\ sresp[t].results # <<>>
        /\ cache[<<sresp[t].user, sresp[t].session_id>>].present

\* ------------------------------------------------ claims: malformed ids
\* the step answers a submission request that carried a malformed id
MalformedSubmissionRequest ==
    /\ nops' = nops + 1
    /\ "ids" \in DOMAIN resp'
    /\ resp'.ids = "malformed" /\ resp'.at = nops'

\* the step answers a search request that carried a malformed id
MalformedSearchRequest(t) ==
    /\ Requests(t)
    /\ sreq'[t].pc = "idle"
    /\ sresp'[t].via \in {"bad_community", "bad_search_id"}

\* the step answers a connection request that carried a malformed id: no
\* other request is answered with this status on this path
MalformedConnectRequest ==
    /\ nops' = nops + 1
    /\ vresp' # vresp
    /\ vresp'.status \notin {"OK", "NOT_FOUND", "FORBIDDEN"}

\* no session, log entry, connection or submission is created, and no record,
\* index document or core entry is modified
StateKept ==
    /\ logs' = logs /\ index' = index /\ core' = core
    /\ connections' = connections
    /\ searches' = searches /\ nrecs' = nrecs /\ cache' = cache

\* C28: a request that carries a malformed session, community or submission id
\* is answered with a bad-input error and changes no state.
C28_MalformedIdIsBadInput ==
    [][/\ MalformedSubmissionRequest => (resp'.status = "BAD_REQUEST" /\ StateKept)
       /\ MalformedConnectRequest => (vresp'.status = "BAD_REQUEST" /\ StateKept)
       /\ \A t \in Threads : MalformedSearchRequest(t) =>
             (sresp'[t].status = "BAD_REQUEST" /\ StateKept)]_vars

\* --------------------------------------------------- claims: not found
\* there is a search session, a recommendation session, of this id
KnownSearch(id) == id[1] = "s" /\ id[2] <= Len(searches)
KnownRecommendation(id) == id[1] = "r" /\ id[2] <= nrecs

\* thread t takes a search request that supplies a search id
SearchPage(t) ==
    /\ Requests(t)
    /\ sargs'[t].kind = "page"
    /\ sargs'[t].source \in SearchSources

\* the request is answered in this step, and names a session
AnsweredOf(t) == sreq'[t].pc = "idle" /\ sresp'[t].session_id # <<>>

\* C29: a page request for a session that does not exist is answered with a
\* not-found error, in the search flow and in the recommendation flow, and a
\* submission to a community that does not exist is answered with a
\* not-found error.
C29_UnknownIsNotFound ==
    [][/\ \A t \in Threads :
             /\ (SearchPage(t) /\ sreq'[t].pc # "idle") => KnownSearch(sreq'[t].search_id)
             /\ (SearchPage(t) /\ AnsweredOf(t) /\ ~KnownSearch(sresp'[t].session_id))
                   => sresp'[t].status = "NOT_FOUND"
             /\ (RecommendationPage(t) /\ AnsweredOf(t)
                   /\ ~KnownRecommendation(sresp'[t].session_id))
                   => sresp'[t].status = "NOT_FOUND"
       /\ (/\ nops' = nops + 1
           /\ "ids" \in DOMAIN resp'
           /\ resp'.at = nops' /\ resp'.op = "create" /\ resp'.ids = "unknown_community")
             => resp'.status = "NOT_FOUND"]_vars

\* ------------------------------------------------ claims: update algebra
\* the entry the calls are made on, and the hashtags submission s contributes
UpdatedEntry(c) == c[<<"c1", standardize_url("http://a/")>>].content

Contribution(content, s) == {h \in DOMAIN content : s \in content[h]}

\* the calls made so far are update(tagsA, sub1), update(tagsB, sub2),
\* update({}, sub1) of two submissions
RetractedAfterTwo(calls) ==
    /\ Len(calls) = 3
    /\ calls[1].sid # calls[2].sid
    /\ calls[3].sid = calls[1].sid
    /\ calls[3].tags = {}

\* C30: update(c, u, tagsA, sub1), update(c, u, tagsB, sub2), update(c, u,
\* {}, sub1) leave the entry with the hashtag set tagsB exactly; and an update
\* with an empty tag set removes the caller's contribution and nothing of any
\* other submission's.
C30_EmptyUpdateRetractsOnlyCaller ==
    [][/\ RetractedAfterTwo(calc'.calls)
             => DOMAIN UpdatedEntry(core') = calc'.calls[2].tags
       /\ (calc'.calls # calc.calls /\ calc'.calls[Len(calc'.calls)].tags = {})
             => LET sid == calc'.calls[Len(calc'.calls)].sid
                IN  /\ Contribution(UpdatedEntry(core'), sid) = {}
                    /\ \A s \in Callers \ {sid} :
                          Contribution(UpdatedEntry(core'), s) = Contribution(UpdatedEntry(core), s)
                    /\ \A h \in DOMAIN UpdatedEntry(core') : UpdatedEntry(core')[h] # {}]_vars

\* the three calls were made with overlapping, different tag sets
C30_Witness ==
    /\ calc.op = "updates"
    /\ RetractedAfterTwo(calc.calls)
    /\ calc.calls[1].tags \cap calc.calls[2].tags # {}
    /\ calc.calls[1].tags # calc.calls[2].tags
    /\ DOMAIN UpdatedEntry(core) = calc.calls[2].tags

\* ------------------------------------------- claims: who may delete
\* the step is the handling of request op with effect e
StepIs(op, e) ==
    /\ nops' = nops + 1
    /\ resp'.op = op /\ resp'.status = e.status
    /\ logs' = e.logs /\ index' = e.index /\ core' = ApplyCalls(core, e.calls)

\* C31: a whole-submission DELETE by a user who is not the submitter leaves
\* the record, the search index and the community cores as they were.
C31_ForeignDeleteHasNoEffect ==
    [][\A user \in Users, id \in 1..MaxSubs :
          (/\ Exists(logs, id)
           /\ logs[id].user_id # user
           /\ StepIs("delete", DeleteEffect(logs, index, user, id)))
          => (logs' = logs /\ index' = index /\ core' = core)]_vars

\* the user has added the submission to the community
AddedBy(rec, user, community_id) ==
    user \in DOMAIN rec.communities /\ community_id \in Range(rec.communities[user])

\* the community cores of one community
CoreOf(c, community_id) == [u \in StdUrls |-> c[<<community_id, u>>]]

\* C32: a DELETE with a community_id removes the submission from that
\* community when the user who added it there issues it; issued by any other
\* user it leaves the submission's communities, its index document and the
\* community-core entries of that community as they were.
C32_RemoveOnlyByAdder ==
    [][\A user \in Users, id \in 1..MaxSubs, community_id \in Communities :
          (/\ Exists(logs, id)
           /\ StepIs("remove", RemoveEffect(logs, index, user, id, community_id)))
          => IF AddedBy(logs[id], user, community_id)
               THEN ~AddedBy(logs'[id], user, community_id)
               ELSE /\ logs'[id].communities = logs[id].communities
                    /\ (id \in index') = (id \in index)
                    /\ CoreOf(core', community_id) = CoreOf(core, community_id)]_vars

\* ------------------------------------------------------ claims: batch
\* the step answers a batch submission
BatchStep == nops' = nops + 1 /\ resp'.op = "batch"

\* the item passes every test of the submission helper
ItemValid(item, user, community) ==
    /\ ~item.broken
    /\ community \in Communities \cap UserCommunities(user)
    /\ item.explanation # {}

\* the stored record is the submission of the item
RecordOf(rec, item, user, community) ==
    /\ rec.user_id = user
    /\ rec.source_url = item.source_url
    /\ rec.explanation = item.explanation
    /\ rec.highlighted_text = item.highlighted_text
    /\ rec.communities = (user :> <<community>>)
    /\ ~rec.deleted

\* C33: a batch submission returns one result per item; an item succeeds
\* exactly when it is valid, whatever happens to the other items, and each
\* item that succeeded is stored and stays stored; the response is a success
\* exactly when every item succeeded.
C33_BatchItemsIndependent ==
    [][BatchStep =>
          LET r == resp'
              ok == {i \in 1..Len(r.results) : r.results[i].status = "OK"}
          IN  /\ Len(r.results) = Len(r.data)
              /\ \A i \in 1..Len(r.data) :
                    (i \in ok) = ItemValid(r.data[i], r.user, r.community)
              /\ Len(logs') = Len(logs) + Cardinality(ok)
              /\ SubSeq(logs', 1, Len(logs)) = logs
              /\ \A i \in ok :
                    /\ r.results[i].submission_id \in (Len(logs) + 1)..Len(logs')
                    /\ r.results[i].submission_id \in index'
                    /\ RecordOf(logs'[r.results[i].submission_id], r.data[i], r.user, r.community)
              /\ \A i, j \in ok : i # j => r.results[i].submission_id # r.results[j].submission_id
              /\ (r.status = "OK") = (ok = 1..Len(r.data))]_vars

\* a batch whose first item failed and whose second item was stored
C33_Witness ==
    /\ resp.op = "batch"
    /\ Len(resp.results) = 2
    /\ resp.results[1].status # "OK"
    /\ resp.results[2].status = "OK"
    /\ resp.status = "INTERNAL_SERVER_ERROR"
    /\ resp.results[2].submission_id = Len(logs)

InWebBy(rec) == {u \in DOMAIN rec.communities : WebCommunity \in Range(rec.communities[u])}

\* C35: only the privileged account places a submission in the reserved web
\* community: a create in it and a PATCH adding a submission to it by any
\* other user are answered FORBIDDEN and leave the submissions' communities
\* as they were.
C35_WebCommunityReserved ==
    [][/\ \A id \in 1..Len(logs') : InWebBy(logs'[id]) \subseteq {PrivilegedUser}
       /\ \A user \in WebUsers \ {PrivilegedUser}, ht \in HighlightedTexts, url \in Urls,
             ex \in Explanations :
             StepIs("create", CreateEffect(logs, index, user, ht, url, ex, WebCommunity))
             => (resp'.status = "FORBIDDEN" /\ logs' = logs)
       /\ \A user \in WebUsers \ {PrivilegedUser}, id \in 1..MaxSubs, ht \in Opt(HighlightedTexts),
             ex \in Opt(Explanations), url \in Opt(Urls) :
             (/\ Exists(logs, id)
              /\ StepIs("patch", PatchEffect(logs, index, user, id, {WebCommunity}, ht, ex, url)))
             => (resp'.status = "FORBIDDEN" /\ logs' = logs)]_vars

\* ------------------------------------------------ claims: after a delete
\* the entries and hashtags submission id contributes to
ContributionsOf(c, id) ==
    {<<k, h>> \in (DOMAIN c) \X HashTokens : h \in DOMAIN c[k].content /\ id \in c[k].content[h]}

\* C36: a submission that its owner has deleted is not in the submissions
\* index again and contributes nothing new to a community core, whatever
\* requests follow.
C36_DeletedStaysGone ==
    [][\A id \in 1..Len(logs') :
          logs'[id].deleted =>
             /\ id \notin index'
             /\ (id <= Len(logs) /\ logs[id].deleted)
                   => ContributionsOf(core', id) \subseteq ContributionsOf(core, id)]_vars

\* the Logs collections that the requests picked by todo can leave behind
\* when they are handled one after another, in any order, starting from l
RECURSIVE SequentialOutcomes(_, _, _)
SequentialOutcomes(l, reqs, todo) ==
    IF todo = {} THEN {l}
    ELSE UNION {SequentialOutcomes(MembershipEffect(l, {}, reqs[i]).logs, reqs, todo \ {i}) :
                  i \in todo}

\* C37: when every add-to-community and remove-from-community request has
\* been answered, the stored communities maps are those that handling the
\* same requests one at a time, in some order, leaves behind.
C37_MembershipLinearizable ==
    (calc # NoCalc /\ \A r \in Threads : creq[r].pc = "idle")
       => \E l \in SequentialOutcomes(calc.start, calc.reqs, DOMAIN calc.reqs) :
             \A id \in 1..Len(logs) : logs[id].communities = l[id].communities

\* thread t takes up a page request of search
PageRequestStep(t) ==
    /\ sreq[t].pc = "idle"
    /\ nreqs' = nreqs + 1
    /\ sargs'[t].kind = "page"
    /\ sargs'[t].source \in SearchSources

\* C38: what search does with a page request (the response, or the candidates
\* it goes on to rank and cache) is the same for every query, source and url
\* argument sent along with the session id.
C38_PageIgnoresOtherArguments ==
    [][\A t \in Threads :
         PageRequestStep(t) =>
            \A user \in Users, url \in SearchUrls, page \in 0..MaxPage, search_id \in SessionIds,
               cache_up \in BOOLEAN, gateway_down \in GatewayFailures :
                PageAnswer(t, user, sargs'[t].q, sargs'[t].source, url, page, search_id,
                           cache_up, gateway_down)
                  => \A q2 \in Queries, source2 \in SearchSources, url2 \in SearchUrls :
                        PageAnswer(t, user, q2, source2, url2, page, search_id,
                                   cache_up, gateway_down)]_vars

\* user may see submission id: it is stored, not deleted, and in a community
\* of the user or submitted by the user
MaySee(user, id) ==
    /\ Exists(logs, id)
    /\ ~logs[id].deleted
    /\ \/ SubmissionCommunities(logs[id]) \cap UserCommunities(user) # {}
       \/ logs[id].user_id = user

====
